---- MODULE Spec2Model ----
(***************************************************************************)
(* State-machine model of the DXF analyzer repository:                     *)
(*   - DXFAnalyzer (dxf_analyzer.py): analysis, reset, Markdown report     *)
(*   - the cloud API job table and background worker (dxf_cloud_api.py)    *)
(*   - DXFAdvancedAnalyzer quality scoring (dxf_advanced_analyzer.py)      *)
(*   - DXFComparison (dxf_comparison.py)                                   *)
(* Python None is the empty set, a present value v is {v}.  Python dicts   *)
(* whose iteration order is observable are association lists (sequences    *)
(* of [k, v] records in insertion order); other dicts are functions.       *)
(***************************************************************************)
EXTENDS Integers, Sequences, FiniteSets, TLC

VARIABLES analyzer, call, markdown,      \* a DXFAnalyzer, its last call, its last report
          advanced, adv_input,         \* a DXFAdvancedAnalyzer and its last input
          analysis_jobs, tasks,        \* the cloud API job table and its worker tasks
          upload_dir, modules,         \* UPLOAD_DIR and the *_AVAILABLE flags
          request, response,           \* the HTTP request handled in a step and its answer
          comparison, cmp_calls,       \* a DXFComparison and the comparisons it has run
          cmp_report,                  \* its last report
          fixer, fix_call,             \* a DXFAutoFix and its last call
          analyzer_3d, call_3d,        \* a DXF3DAnalyzer and its last call
          ai_integration, ai_call,     \* a DXFAIIntegration and its last call
          cnc_call                     \* the last call of a DXFCNCAnalyzer

analyzerVars == <<analyzer, call, markdown>>

advVars == <<advanced, adv_input>>

apiVars == <<analysis_jobs, tasks, upload_dir, modules, request, response>>

cmpVars == <<comparison, cmp_calls, cmp_report>>

fixVars == <<fixer, fix_call>>

threeDVars == <<analyzer_3d, call_3d>>

aiVars == <<ai_integration, ai_call>>

cncVars == <<cnc_call>>

toolVars == <<fixVars, threeDVars, aiVars, cncVars>>

vars == <<analyzer, call, markdown, advanced, adv_input,
          analysis_jobs, tasks, upload_dir, modules, request, response,
          comparison, cmp_calls, cmp_report, fixer, fix_call,
          analyzer_3d, call_3d,
          ai_integration, ai_call, cnc_call>>

-----------------------------------------------------------------------------
(* Generic helpers: Optional values, dicts, association lists.             *)

None == {}

Some(v) == {v}

Val(o) == CHOOSE v \in o : TRUE

EmptyDict == [k \in {} |-> 0]

DGet(d, k, default) == IF k \in DOMAIN d THEN d[k] ELSE default

DSet(d, k, v) == [x \in (DOMAIN d) \cup {k} |-> IF x = k THEN v ELSE d[x]]

Range(s) == {s[i] : i \in DOMAIN s}

AKeys(al) == {al[i].k : i \in DOMAIN al}

AGet(al, key, default) ==
    IF key \in AKeys(al)
    THEN (CHOOSE e \in Range(al) : e.k = key).v
    ELSE default

ASet(al, key, val) ==
    IF key \in AKeys(al)
    THEN [i \in DOMAIN al |-> IF al[i].k = key THEN [k |-> key, v |-> val] ELSE al[i]]
    ELSE Append(al, [k |-> key, v |-> val])

RECURSIVE SumSeq(_)
SumSeq(s) == IF s = <<>> THEN 0 ELSE Head(s) + SumSeq(Tail(s))

AValues(al) == [i \in DOMAIN al |-> al[i].v]

ISqrt(n) == CHOOSE r \in 0..n : r * r <= n /\ n < (r + 1) * (r + 1)

Abs(n) == IF n < 0 THEN -n ELSE n

-----------------------------------------------------------------------------
(* Drawings: what ezdxf.readfile hands to the analyzer.                    *)

MaxEntities == 2

Layer(name, color, linetype) == [name |-> name, color |-> color, linetype |-> linetype]

(* An entity as ezdxf exposes it.  extent is the set of extreme points of   *)
(* the entity's geometry in the drawing plane (empty where none is given). *)
Entity(type, layer) ==
    [type |-> type, layer |-> layer, start |-> <<0, 0>>, end |-> <<0, 0>>,
     center |-> <<0, 0, 0>>, radius |-> 0, text |-> "", height |-> 0,
     name |-> "", measurement |-> None, extent |-> {}]

EntityPool ==
    << [Entity("LINE", "L1") EXCEPT !.start = <<-3, -4>>, !.end = <<0, 0>>,
                                     !.extent = {<<-3, -4>>, <<0, 0>>}],
       [Entity("LINE", "L2") EXCEPT !.start = <<1, 1>>, !.end = <<7, 9>>,
                                     !.extent = {<<1, 1>>, <<7, 9>>}],
       [Entity("CIRCLE", "L1") EXCEPT !.center = <<5, 5, 0>>, !.radius = 2,
                                       !.extent = {<<3, 3>>, <<7, 7>>}],
       [Entity("ARC", "L1") EXCEPT !.center = <<9, -6, 0>>, !.radius = 1,
                                    !.extent = {<<8, -6>>, <<10, -5>>}],
       [Entity("TEXT", "L2") EXCEPT !.text = "note", !.height = 3],
       [Entity("MTEXT", "L2") EXCEPT !.text = "title", !.height = 5],
       [Entity("DIMENSION", "L1") EXCEPT !.measurement = Some(10)],
       [Entity("LWPOLYLINE", "L1") EXCEPT !.start = <<0, 0>>, !.end = <<4, 0>>,
                                           !.extent = {<<0, 0>>, <<4, 0>>}],
       Entity("POLYLINE", "L1"),
       [Entity("INSERT", "L2") EXCEPT !.name = "BOLT", !.start = <<2, 2>>],
       Entity("HATCH", "L1"),
       [Entity("POINT", "0") EXCEPT !.extent = {<<0, 0>>}] >>

DefaultLayers == <<Layer("0", 7, "CONTINUOUS")>>

NamedLayers ==
    <<Layer("0", 7, "CONTINUOUS"), Layer("L1", 1, "DASHED"), Layer("L2", 2, "CENTER")>>

(* Model spaces of up to n entities, listed in the pool's (handle) order.  *)
RECURSIVE ModelSpaces(_, _)
ModelSpaces(n, from) ==
    IF n = 0 THEN {<<>>}
    ELSE {<<>>} \cup UNION {{<<EntityPool[i]>> \o rest : rest \in ModelSpaces(n - 1, i)} :
                              i \in from..Len(EntityPool)}

Drawings ==
    [layers : {NamedLayers}, entities : ModelSpaces(MaxEntities, 1)]
    \cup [layers : {DefaultLayers}, entities : ModelSpaces(1, 1)]

(* A path given to analyze_dxf_file: a missing file (stat raises), a file  *)
(* ezdxf cannot read (readfile raises), or a readable drawing.             *)
Files ==
    { [filename |-> "missing.dxf", kind |-> "missing", doc |-> None] }
    \cup { [filename |-> "broken.dxf", kind |-> "unreadable", doc |-> None] }
    \cup { [filename |-> "drawing.dxf", kind |-> "dxf", doc |-> Some(d)] : d \in Drawings }

FileInfo(f) == [filename |-> f.filename, size |-> 1024, modified_time |-> "mtime"]

-----------------------------------------------------------------------------
(* DXFAnalyzer                                                             *)

NoBounds == [min_x |-> None, min_y |-> None, max_x |-> None, max_y |-> None]

DXFAnalyzerInit ==
    [file_info |-> EmptyDict, summary_info |-> EmptyDict,
     layers |-> <<>>, dimensions |-> <<>>, circles |-> <<>>, arcs |-> <<>>,
     texts |-> <<>>, lines |-> <<>>, polylines |-> <<>>, blocks |-> <<>>,
     hatches |-> <<>>, entities_by_layer |-> EmptyDict, entity_breakdown |-> <<>>,
     drawing_bounds |-> NoBounds, analysis_data |-> None]

(* reset_analysis_data that leaves the advanced-analysis snapshot behind.   *)
reset_keeps_analysis_data(a) ==
    [a EXCEPT !.file_info = EmptyDict, !.summary_info = EmptyDict,
              !.layers = <<>>, !.dimensions = <<>>, !.circles = <<>>, !.arcs = <<>>,
              !.texts = <<>>, !.lines = <<>>, !.polylines = <<>>, !.blocks = <<>>,
              !.hatches = <<>>, !.entities_by_layer = EmptyDict,
              !.entity_breakdown = <<>>, !.drawing_bounds = NoBounds]

reset_analysis_data(a) ==
    [a EXCEPT !.file_info = EmptyDict, !.summary_info = EmptyDict,
              !.layers = <<>>, !.dimensions = <<>>, !.circles = <<>>, !.arcs = <<>>,
              !.texts = <<>>, !.lines = <<>>, !.polylines = <<>>, !.blocks = <<>>,
              !.hatches = <<>>, !.entities_by_layer = EmptyDict,
              !.entity_breakdown = <<>>, !.drawing_bounds = NoBounds,
              !.analysis_data = None]

update_bounds(b, x, y) ==
    [min_x |-> IF b.min_x = None \/ x < Val(b.min_x) THEN Some(x) ELSE b.min_x,
     max_x |-> IF b.max_x = None \/ x > Val(b.max_x) THEN Some(x) ELSE b.max_x,
     min_y |-> IF b.min_y = None \/ y < Val(b.min_y) THEN Some(y) ELSE b.min_y,
     max_y |-> IF b.max_y = None \/ y > Val(b.max_y) THEN Some(y) ELSE b.max_y]

calculate_drawing_size(b) ==
    IF b.min_x # None /\ b.max_x # None /\ b.min_y # None /\ b.max_y # None
    THEN LET width == Val(b.max_x) - Val(b.min_x)
             height == Val(b.max_y) - Val(b.min_y)
         IN  Some([width |-> width, height |-> height, area |-> width * height,
                   bounds |-> b])
    ELSE None

(* entity_counts[entity_type] = entity_counts.get(entity_type, 0) + 1 *)
CountEntityOverwrite(entity_counts, t) == ASet(entity_counts, t, 1)

CountEntity(entity_counts, t) == ASet(entity_counts, t, AGet(entity_counts, t, 0) + 1)

(* One iteration of the entity loop: st carries the analyzer object and    *)
(* the local entity_counts.                                                *)
CollectEntity(st, e) ==
    LET a == st.a
        t == e.type
        a1 ==
          CASE t = "DIMENSION" ->
                 [a EXCEPT !.dimensions = Append(@, [layer |-> e.layer,
                      measurement |-> e.measurement, text |-> e.text, style |-> "Standard"])]
            [] t = "CIRCLE" ->
                 [a EXCEPT !.circles = Append(@, [layer |-> e.layer, radius |-> e.radius,
                      diameter |-> e.radius * 2, center |-> e.center])]
            [] t = "ARC" ->
                 [a EXCEPT !.arcs = Append(@, [layer |-> e.layer, radius |-> e.radius,
                      center |-> <<e.center[1], e.center[2]>>])]
            [] t \in {"TEXT", "MTEXT"} ->
                 [a EXCEPT !.texts = Append(@, [type |-> t, layer |-> e.layer,
                      text |-> e.text, height |-> e.height])]
            [] t = "LINE" ->
                 [a EXCEPT !.lines = Append(@, [layer |-> e.layer, start |-> e.start,
                      end |-> e.end,
                      length |-> ISqrt((e.end[1] - e.start[1]) * (e.end[1] - e.start[1])
                                     + (e.end[2] - e.start[2]) * (e.end[2] - e.start[2]))]),
                           !.drawing_bounds =
                               update_bounds(update_bounds(@, e.start[1], e.start[2]),
                                             e.end[1], e.end[2])]
            [] t \in {"LWPOLYLINE", "POLYLINE"} ->
                 LET points == IF t = "LWPOLYLINE" THEN <<e.start, e.end>> ELSE <<>>
                 IN  [a EXCEPT !.polylines = Append(@, [layer |-> e.layer, points |-> points,
                          closed |-> FALSE, vertex_count |-> Len(points)])]
            [] t = "INSERT" ->
                 [a EXCEPT !.blocks = Append(@, [layer |-> e.layer, name |-> e.name,
                      position |-> e.start, scale |-> <<1, 1>>, rotation |-> 0])]
            [] t = "HATCH" ->
                 [a EXCEPT !.hatches = Append(@, [layer |-> e.layer, pattern |-> "SOLID",
                      solid |-> 1, scale |-> 1])]
            [] OTHER -> a
        byLayer == DGet(a1.entities_by_layer, e.layer, EmptyDict)
    IN  [a |-> [a1 EXCEPT !.entities_by_layer =
                    DSet(@, e.layer, DSet(byLayer, t, DGet(byLayer, t, 0) + 1))],
         entity_counts |-> CountEntity(st.entity_counts, t)]

RECURSIVE CollectEntities(_, _)
CollectEntities(st, ents) ==
    IF ents = <<>> THEN st
    ELSE CollectEntities(CollectEntity(st, Head(ents)), Tail(ents))

AnalysisData(a) ==
    [file_info |-> a.file_info, summary_info |-> a.summary_info, layers |-> a.layers,
     dimensions |-> a.dimensions, circles |-> a.circles, arcs |-> a.arcs,
     texts |-> a.texts, lines |-> a.lines, polylines |-> a.polylines,
     blocks |-> a.blocks, hatches |-> a.hatches,
     entities_by_layer |-> a.entities_by_layer,
     entity_breakdown |-> a.entity_breakdown, drawing_bounds |-> a.drawing_bounds]

(* analyze_dxf_file: the analyzer object after the call and the value      *)
(* returned.  An exception anywhere in the try block returns False with    *)
(* whatever the object held when it was raised.                            *)
analyze_dxf_file(a, f) ==
    IF f.kind = "missing" THEN [a |-> a, ret |-> FALSE]
    ELSE
      LET a0 == [a EXCEPT !.file_info = FileInfo(f)]
      IN  IF f.kind = "unreadable" THEN [a |-> a0, ret |-> FALSE]
          ELSE
            LET doc == Val(f.doc)
                a1 == [reset_analysis_data(a0) EXCEPT !.file_info = FileInfo(f)]
                a2 == [a1 EXCEPT !.layers = doc.layers]
                st == CollectEntities([a |-> a2, entity_counts |-> <<>>], doc.entities)
                a3 == st.a
                a4 == [a3 EXCEPT !.entity_breakdown = st.entity_counts,
                         !.summary_info =
                           [total_entities |-> SumSeq(AValues(st.entity_counts)),
                            layer_count |-> Len(a3.layers),
                            dimension_count |-> Len(a3.dimensions),
                            circle_count |-> Len(a3.circles),
                            arc_count |-> Len(a3.arcs),
                            text_count |-> Len(a3.texts),
                            line_count |-> Len(a3.lines),
                            polyline_count |-> Len(a3.polylines),
                            block_count |-> Len(a3.blocks),
                            hatch_count |-> Len(a3.hatches),
                            entity_breakdown |-> st.entity_counts,
                            drawing_size |-> calculate_drawing_size(a3.drawing_bounds)]]
            IN  [a |-> [a4 EXCEPT !.analysis_data = Some(AnalysisData(a4))],
                 ret |-> TRUE]

-----------------------------------------------------------------------------
(* _build_markdown_content.  The report is kept as its parts: the header   *)
(* values and the rows of each table, in the order they are written.       *)

(* sorted(items, key=count, reverse=True): stable, descending by v.        *)
RECURSIVE InsertDesc(_, _)
InsertDesc(sorted, e) ==
    IF sorted = <<>> THEN <<e>>
    ELSE IF Head(sorted).v >= e.v
         THEN <<Head(sorted)>> \o InsertDesc(Tail(sorted), e)
         ELSE <<e>> \o sorted

RECURSIVE SortDesc(_)
SortDesc(al) ==
    IF al = <<>> THEN <<>>
    ELSE InsertDesc(SortDesc(SubSeq(al, 1, Len(al) - 1)), al[Len(al)])

(* n / d in tenths, rounded half to even: the .1f formatting of n/d.       *)
RoundTenths(n, d) ==
    LET q == (n * 10) \div d
        r == (n * 10) % d
    IN  IF 2 * r > d \/ (2 * r = d /\ q % 2 = 1) THEN q + 1 ELSE q

EntityRows(entity_breakdown) ==
    LET total == SumSeq(AValues(entity_breakdown))
        items == SortDesc(entity_breakdown)
    IN  [i \in DOMAIN items |->
            [type |-> items[i].k, count |-> items[i].v,
             percentage |-> IF total > 0 THEN RoundTenths(items[i].v * 100, total) ELSE 0]]

build_markdown_content(a) ==
    IF \E i \in DOMAIN a.layers : {"name", "color", "linetype"} \ DOMAIN a.layers[i] # {}
    THEN [raised |-> "KeyError"]
    ELSE
      [raised |-> "",
       filename |-> DGet(a.file_info, "filename", "N/A"),
       size |-> DGet(a.file_info, "size", 0),
       modified_time |-> DGet(a.file_info, "modified_time", "N/A"),
       total_entities |-> DGet(a.summary_info, "total_entities", 0),
       layer_count |-> DGet(a.summary_info, "layer_count", 0),
       dimension_count |-> DGet(a.summary_info, "dimension_count", 0),
       circle_arc_count |-> DGet(a.summary_info, "circle_count", 0)
                              + DGet(a.summary_info, "arc_count", 0),
       text_count |-> DGet(a.summary_info, "text_count", 0),
       entity_rows |-> EntityRows(a.entity_breakdown),
       layer_rows |-> a.layers,
       dimension_rows |->
           [i \in DOMAIN a.dimensions |->
               [no |-> i, measurement |-> DGet(a.dimensions[i], "measurement", None),
                text |-> DGet(a.dimensions[i], "text", ""),
                style |-> DGet(a.dimensions[i], "style", ""),
                layer |-> DGet(a.dimensions[i], "layer", "")]],
       circle_rows |->
           [i \in DOMAIN a.circles |->
               [no |-> i, center |-> a.circles[i].center, radius |-> a.circles[i].radius,
                diameter |-> a.circles[i].diameter, layer |-> a.circles[i].layer]]]

-----------------------------------------------------------------------------
(* DXFAdvancedAnalyzer.  Scores that the code keeps as floats with one     *)
(* decimal (the weighted quality score) are kept in tenths; complexity is  *)
(* kept in units of 1/100000.                                              *)

Issue(severity, category, message) ==
    [severity |-> severity, category |-> category, message |-> message]

(* Layer names that match one of the meaningful_patterns regular           *)
(* expressions (dimension|dim, center|cen, hidden|hid, text|txt, hatch).   *)
MeaningfulNames == {"DIM", "CENTER", "HIDDEN", "TEXT", "HATCH"}

evaluate_layer_organization(layers) ==
    IF layers = <<>>
    THEN [score |-> 0, issues |-> <<Issue("error", "layer", "no_layers_defined")>>]
    ELSE
      LET layer_names == [i \in DOMAIN layers |-> layers[i].name]
          only_default == Len(layer_names) = 1 /\ layer_names[1] = "0"
          meaningful_count ==
              Cardinality({i \in DOMAIN layer_names : layer_names[i] \in MeaningfulNames})
          unsystematic == 2 * meaningful_count < Len(layer_names)
      IN  [score |-> 100 - (IF only_default THEN 30 ELSE 0) - (IF unsystematic THEN 20 ELSE 0),
           issues |-> (IF only_default
                       THEN <<Issue("warning", "layer", "only_default_layer")>> ELSE <<>>)
                      \o (IF unsystematic
                          THEN <<Issue("info", "layer", "unsystematic_names")>> ELSE <<>>)]

SelectSeqPositive(values) == SelectSeq(values, LAMBDA v : v # None /\ Val(v) > 0)

(* The measurements further than three sample standard deviations from the *)
(* mean: |m - mean| > 3 * stdev, cleared of divisions and of the root.     *)
Outliers(ms) ==
    LET n == Len(ms)
        S == SumSeq(ms)
        sq == SumSeq([i \in DOMAIN ms |-> (n * ms[i] - S) * (n * ms[i] - S)])
    IN  IF n > 1 /\ sq > 0
        THEN SelectSeq(ms, LAMBDA m : (n - 1) * (n * m - S) * (n * m - S) > 9 * sq)
        ELSE <<>>

evaluate_dimensions(dimensions) ==
    LET measurements ==
            [i \in 1..Len(SelectSeqPositive([j \in DOMAIN dimensions |->
                                                DGet(dimensions[j], "measurement", None)])) |->
                Val(SelectSeqPositive([j \in DOMAIN dimensions |->
                                          DGet(dimensions[j], "measurement", None)])[i])]
        outliers == Outliers(measurements)
    IN  IF outliers # <<>>
        THEN [score |-> 100 - (IF Len(outliers) * 5 < 20 THEN Len(outliers) * 5 ELSE 20),
              issues |-> <<Issue("warning", "dimension", <<"outliers", Len(outliers)>>)>>]
        ELSE [score |-> 100, issues |-> <<>>]

evaluate_entity_distribution(entity_breakdown) ==
    IF entity_breakdown = <<>>
    THEN [score |-> 0, issues |-> <<Issue("error", "entity", "no_entities")>>]
    ELSE
      LET total_entities == SumSeq(AValues(entity_breakdown))
          dominant == SelectSeq(entity_breakdown, LAMBDA e : 10 * e.v > 7 * total_entities)
      IN  [score |-> 100 - 15 * Len(dominant),
           issues |-> [i \in DOMAIN dominant |->
                          Issue("info", "distribution", <<dominant[i].k, dominant[i].v>>)]]

evaluate_text_consistency(texts) ==
    LET heights == {texts[i].height : i \in {j \in DOMAIN texts : texts[j].height > 0}}
    IN  IF Cardinality(heights) > 5
        THEN [score |-> 90,
              issues |-> <<Issue("info", "text", <<"heights", Cardinality(heights)>>)>>]
        ELSE [score |-> 100, issues |-> <<>>]

MinOf(a, b) == IF a < b THEN a ELSE b

MaxOf(a, b) == IF a > b THEN a ELSE b

get_complexity_level(complexity) ==
    IF complexity < 20000 THEN "very_simple"
    ELSE IF complexity < 40000 THEN "simple"
    ELSE IF complexity < 60000 THEN "normal"
    ELSE IF complexity < 80000 THEN "complex"
    ELSE "very_complex"

calculate_drawing_complexity(analyzer_data) ==
    LET total_entities == DGet(analyzer_data.summary_info, "total_entities", 0)
        layer_count == DGet(analyzer_data.summary_info, "layer_count", 0)
        entity_types == Len(analyzer_data.entity_breakdown)
        overall_complexity == MinOf(total_entities, 10000) * 5
                                + MinOf(layer_count, 50) * 600
                                + MinOf(entity_types, 20) * 1000
    IN  [overall_complexity |-> overall_complexity,
         complexity_level |-> get_complexity_level(overall_complexity)]

(* A grading with three bands only.                                        *)
get_quality_grade_coarse(score) ==
    IF score >= 900 THEN "A"
    ELSE IF score >= 700 THEN "C"
    ELSE "F"

get_quality_grade(score) ==
    IF score >= 900 THEN "A"
    ELSE IF score >= 800 THEN "B"
    ELSE IF score >= 700 THEN "C"
    ELSE IF score >= 600 THEN "D"
    ELSE "F"

analyze_drawing_quality(analyzer_data) ==
    LET layer == evaluate_layer_organization(analyzer_data.layers)
        dim == evaluate_dimensions(analyzer_data.dimensions)
        dist == evaluate_entity_distribution(analyzer_data.entity_breakdown)
        text == evaluate_text_consistency(analyzer_data.texts)
        complexity == calculate_drawing_complexity(analyzer_data)
        too_complex == complexity.overall_complexity > 80000
        quality_score == 1000 - (100 - layer.score) * 2 - (100 - dim.score) * 3
                              - (100 - dist.score) * 1 - (100 - text.score) * 1
                              - (IF too_complex THEN 100 ELSE 0)
    IN  [overall_score |-> MaxOf(0, quality_score),
         layer_score |-> layer.score,
         dimension_score |-> dim.score,
         distribution_score |-> dist.score,
         text_score |-> text.score,
         issues |-> layer.issues \o dim.issues \o dist.issues \o text.issues
                    \o (IF too_complex
                        THEN <<Issue("warning", "complexity", "very_complex")>> ELSE <<>>),
         grade |-> get_quality_grade(quality_score)]

Anomaly(type, severity, message) ==
    [type |-> type, severity |-> severity, message |-> message]

(* Circles whose (centre x, centre y, radius) key was seen earlier in the  *)
(* list.  Coordinates are integers here, so round(..., 3) changes nothing. *)
detect_duplicate_entities(analyzer_data) ==
    LET circles == analyzer_data.circles
        Key(c) == <<c.center[1], c.center[2], c.radius>>
        repeated == {i \in DOMAIN circles : \E j \in 1..(i - 1) : Key(circles[j]) = Key(circles[i])}
        Nth(k) == CHOOSE i \in repeated : Cardinality({j \in repeated : j < i}) = k - 1
    IN  IF Len(circles) > 1
        THEN [k \in 1..Cardinality(repeated) |->
                 Anomaly("duplicate_circle", "warning", <<"duplicate_circle", circles[Nth(k)].center>>)]
        ELSE <<>>

(* Texts more than ten times above or below the mean height.               *)
detect_scale_anomalies(analyzer_data) ==
    LET texts == analyzer_data.texts
        valid == SelectSeq(texts, LAMBDA t : t.height > 0)
        n == Len(valid)
        S == SumSeq([i \in DOMAIN valid |-> valid[i].height])
        odd == SelectSeq(valid, LAMBDA t : t.height * n > S * 10 \/ t.height * 10 * n < S)
    IN  IF n > 1
        THEN [i \in DOMAIN odd |->
                 Anomaly("text_scale", "info", <<"text_scale", odd[i].height, S, n>>)]
        ELSE <<>>

detect_anomalies(analyzer_data) ==
    detect_duplicate_entities(analyzer_data) \o detect_scale_anomalies(analyzer_data)

(* generate_ai_context: the parts of the context the callers read.         *)
generate_ai_context(analyzer_data) ==
    LET quality == analyze_drawing_quality(analyzer_data)
        complexity == calculate_drawing_complexity(analyzer_data)
    IN  [summary |-> [file_name |-> DGet(analyzer_data.file_info, "filename", "unknown"),
                      total_entities |-> DGet(analyzer_data.summary_info, "total_entities", 0),
                      quality_score |-> quality.overall_score,
                      quality_grade |-> quality.grade,
                      complexity_level |-> complexity.complexity_level],
         quality_analysis |-> [score |-> quality.overall_score, issues |-> quality.issues],
         complexity_analysis |-> complexity,
         anomalies |-> detect_anomalies(analyzer_data)]

-----------------------------------------------------------------------------
(* Analyzer data handed to the advanced analyzer: what analyze_dxf_file    *)
(* leaves in analysis_data for drawings larger than the entity pool        *)
(* reaches (many layers, many entities, runs of equal dimensions).         *)

ComplexityEntityBase == 10000

ComplexityLayerBase == 50

OutlierRun == 10

MaxTextHeights == 6

Repeat(x, n) == [i \in 1..n |-> x]

ManyLayers == [i \in 1..ComplexityLayerBase |-> Layer("L" \o ToString(i), 7, "CONTINUOUS")]

QualityLayers ==
    { <<>>, DefaultLayers, NamedLayers, ManyLayers,
      <<Layer("DIM", 2, "CONTINUOUS"), Layer("TEXT", 7, "CONTINUOUS")>> }

DimensionOf(m) == [layer |-> "L1", measurement |-> Some(m), text |-> "", style |-> "Standard"]

QualityDimensions ==
    { <<>>,
      <<DimensionOf(10), DimensionOf(20)>>,
      Repeat(DimensionOf(10), OutlierRun) \o <<DimensionOf(1000)>> }

TextOf(h) == [type |-> "TEXT", layer |-> "L2", text |-> "note", height |-> h]

QualityTexts ==
    { <<>>,
      <<TextOf(3), TextOf(100)>>,
      [i \in 1..MaxTextHeights |-> TextOf(i)] }

QualityLineCounts == {0, 1, ComplexityEntityBase}

(* The analysis data of a drawing with these layers, dimensions and texts  *)
(* and nLines LINE entities.                                               *)
QualityData(layers, dimensions, texts, nLines) ==
    LET breakdown ==
            (IF nLines > 0 THEN <<[k |-> "LINE", v |-> nLines]>> ELSE <<>>)
            \o (IF dimensions # <<>> THEN <<[k |-> "DIMENSION", v |-> Len(dimensions)]>> ELSE <<>>)
            \o (IF texts # <<>> THEN <<[k |-> "TEXT", v |-> Len(texts)]>> ELSE <<>>)
    IN  [file_info |-> FileInfo([filename |-> "drawing.dxf"]),
         summary_info |-> [total_entities |-> SumSeq(AValues(breakdown)),
                           layer_count |-> Len(layers),
                           dimension_count |-> Len(dimensions),
                           text_count |-> Len(texts),
                           line_count |-> nLines,
                           entity_breakdown |-> breakdown],
         layers |-> layers, dimensions |-> dimensions, texts |-> texts,
         circles |-> <<>>, entity_breakdown |-> breakdown]

QualityInputs ==
    {QualityData(l, d, t, n) : l \in QualityLayers, d \in QualityDimensions,
                               t \in QualityTexts, n \in QualityLineCounts}

DXFAdvancedAnalyzerInit ==
    [quality_metrics |-> EmptyDict, complexity_metrics |-> EmptyDict, anomalies |-> <<>>]

-----------------------------------------------------------------------------
(* dxf_cloud_api: tokens, the job table, the analysis worker.              *)

MaxJobs == 1

Users == {"testuser", "other"}

(* The Authorization header of a request: absent, a string jwt.decode      *)
(* rejects, an expired token, a token without sub, a valid token of a user.*)
Tokens ==
    { [kind |-> k, sub |-> None] : k \in {"missing", "invalid", "nosub"} }
    \cup { [kind |-> "expired", sub |-> Some("testuser")] }
    \cup { [kind |-> "valid", sub |-> Some(u)] : u \in Users }

(* File names as character sequences, and str.lower on their alphabet.     *)
Lower(c) ==
    CASE c = "A" -> "a" [] c = "D" -> "d" [] c = "X" -> "x" [] c = "F" -> "f"
      [] OTHER -> c

lower(name) == [i \in DOMAIN name |-> Lower(name[i])]

endswith(name, suffix) ==
    /\ Len(name) >= Len(suffix)
    /\ SubSeq(name, Len(name) - Len(suffix) + 1, Len(name)) = suffix

DotDxf == <<".", "d", "x", "f">>

Filenames ==
    { <<>>, <<"a", ".", "d", "x", "f">>, <<"A", ".", "D", "X", "F">>,
      <<"a", ".", "t", "x", "t">>, <<"d", "x", "f">> }

(* Contents of an uploaded file: not a drawing, a drawing with one LINE,   *)
(* a drawing with the same CIRCLE twice.                                   *)
Uploads ==
    { [kind |-> "unreadable", doc |-> None],
      [kind |-> "dxf", doc |-> Some([layers |-> NamedLayers, entities |-> <<EntityPool[1]>>])],
      [kind |-> "dxf",
       doc |-> Some([layers |-> NamedLayers, entities |-> <<EntityPool[3], EntityPool[3]>>])] }

Modules == [analyzer : BOOLEAN, advanced : BOOLEAN, three_d : BOOLEAN]

AllModules == [analyzer |-> TRUE, advanced |-> TRUE, three_d |-> TRUE]

(* os.unlink that leaves the file where it is.                             *)
DKeep(d, k) == d

(* os.unlink(k) in the directory d, after os.path.exists(k).               *)
DDel(d, k) == [x \in (DOMAIN d) \ {k} |-> d[x]]

Take(s, n) == SubSeq(s, 1, MinOf(n, Len(s)))

(* An HTTP response.  table_read tells whether the handler got as far as   *)
(* reading analysis_jobs.                                                  *)
HTTPException(status_code, detail, table_read) ==
    [status_code |-> status_code, detail |-> detail, body |-> None,
     table_read |-> table_read]

(* HTTPBearer followed by get_current_user: the possible outcomes.  A      *)
(* request without credentials is refused by HTTPBearer with 403 or 401,   *)
(* depending on the FastAPI release.                                       *)
get_current_user(token) ==
    CASE token.kind = "missing" ->
           { [username |-> None, error |-> Some(HTTPException(c, "Not authenticated", FALSE))] :
               c \in {401, 403} }
      [] token.kind = "invalid" ->
           { [username |-> None, error |-> Some(HTTPException(403, "invalid token", FALSE))] }
      [] token.kind = "expired" ->
           { [username |-> None, error |-> Some(HTTPException(403, "Token has expired", FALSE))] }
      [] token.kind = "nosub" ->
           { [username |-> None, error |-> Some(HTTPException(403, "sub field missing", FALSE))] }
      [] OTHER -> { [username |-> token.sub, error |-> None] }

JobIds == {"job" \o ToString(i) : i \in 1..MaxJobs}

(* uuid4: an id no job has yet.                                            *)
NewJobId(jobs) == "job" \o ToString(Cardinality(DOMAIN jobs) + 1)

file_location(job_id, filename) == <<job_id, filename>>

(* The entry is created as if the analysis had already begun.              *)
ProcessingJob(filename, username) ==
    [status |-> "processing", original_filename |-> filename, user |-> username,
     analysis_data |-> None, error_message |-> None]

(* An entry of analysis_jobs; dict.get of an absent key is None.           *)
PendingJob(filename, username) ==
    [status |-> "pending", original_filename |-> filename, user |-> username,
     analysis_data |-> None, error_message |-> None]

(* job.update({'status': 'failed'}): the error text is left out.           *)
failed_without_message(job, message) == [job EXCEPT !.status = "failed"]

failed(job, message) ==
    [job EXCEPT !.status = "failed", !.error_message = Some(message)]

completed(job, result_data) ==
    [job EXCEPT !.status = "completed", !.analysis_data = Some(result_data)]

AnalysisResultData(basic_data, file_path) ==
    [file_info |-> [filename |-> DGet(basic_data.file_info, "filename", file_path),
                    size_bytes |-> DGet(basic_data.file_info, "size", 0),
                    content_type |-> "application/dxf"],
     basic_summary |-> [total_entities |-> DGet(basic_data.summary_info, "total_entities", 0),
                        layer_count |-> DGet(basic_data.summary_info, "layer_count", 0),
                        entity_breakdown |->
                            DGet(basic_data.summary_info, "entity_breakdown", <<>>)],
     advanced_summary |-> None,
     three_d_summary |-> None]

(* AdvancedSummary(...) built from the context: item.get('description') of *)
(* the first five anomalies.  pydantic refuses a None in a List[str].      *)
AdvancedSummary(adv_context) ==
    LET first == Take(adv_context.anomalies, 5)
        issues_detected ==
            [i \in DOMAIN first |->
                IF "description" \in DOMAIN first[i] THEN Some(first[i].description) ELSE None]
    IN  IF \E i \in DOMAIN issues_detected : issues_detected[i] = None
        THEN [raised |-> "ValidationError", value |-> None]
        ELSE [raised |-> "",
              value |-> Some([quality_score |-> adv_context.summary.quality_score,
                              quality_grade |-> adv_context.summary.quality_grade,
                              issues_detected |-> issues_detected])]

(* DXF3DAnalyzer (dxf_3d_analyzer.py).  An entity of a model space as the  *)
(* 3D analyzer reads it: vertices are the corners of a 3DFACE, the         *)
(* vertices of a MESH or the control points of a SPLINE; elevation,        *)
(* thickness, start and end are None where the entity's type has no such   *)
(* DXF attribute (hasattr is False).                                       *)

Max3DEntities == 2

MaxAnalyses3D == 2

Entity3D(type, layer) ==
    [type |-> type, layer |-> layer, vertices |-> <<>>, faces |-> 0,
     elevation |-> None, thickness |-> None, start |-> None, end |-> None]

Pool3D ==
    << [Entity3D("3DFACE", "0") EXCEPT
            !.vertices = <<<<0, 0, 0>>, <<1, 0, 5>>, <<1, 1, 5>>, <<0, 1, 0>>>>],
       [Entity3D("MESH", "0") EXCEPT
            !.vertices = <<<<0, 0, 0>>, <<1, 0, 0>>, <<1, 1, 1>>, <<0, 1, 1>>, <<1, 1, 2>>>>,
            !.faces = 5],
       [Entity3D("MESH", "0") EXCEPT
            !.vertices = <<<<0, 0, -3>>, <<1, 0, -3>>, <<0, 1, -1>>>>, !.faces = 1],
       [Entity3D("SPLINE", "0") EXCEPT !.vertices = <<<<0, 0, 0>>, <<2, 2, 4>>>>],
       Entity3D("3DSOLID", "0"),
       [Entity3D("LINE", "0") EXCEPT !.thickness = Some(0),
            !.start = Some(<<0, 0, 0>>), !.end = Some(<<1, 1, 7>>)],
       [Entity3D("LWPOLYLINE", "0") EXCEPT !.thickness = Some(0), !.elevation = Some(0)] >>

RECURSIVE ModelSpaces3D(_)
ModelSpaces3D(n) ==
    IF n = 0 THEN {<<>>}
    ELSE {<<>>} \cup {<<Pool3D[i]>> \o rest : i \in DOMAIN Pool3D, rest \in ModelSpaces3D(n - 1)}

(* The planar entities of the analyzer's drawings as the 3D analyzer reads *)
(* them: at Z = 0 with no thickness.                                       *)
Planar(e) ==
    [Entity3D(e.type, e.layer) EXCEPT
        !.thickness = IF e.type \in {"LINE", "CIRCLE", "ARC", "TEXT", "LWPOLYLINE", "POLYLINE", "POINT"}
                      THEN Some(0) ELSE None,
        !.elevation = IF e.type = "LWPOLYLINE" THEN Some(0) ELSE None,
        !.start = IF e.type = "LINE" THEN Some(<<e.start[1], e.start[2], 0>>) ELSE None,
        !.end = IF e.type = "LINE" THEN Some(<<e.end[1], e.end[2], 0>>) ELSE None]

DXF3DAnalyzerInit ==
    [solids |-> <<>>, surfaces |-> <<>>, meshes |-> <<>>, splines |-> <<>>,
     regions |-> <<>>, bodies |-> <<>>, z_range |-> [min |-> None, max |-> None],
     is_3d_drawing |-> FALSE]

update_z_range(z_range, z_value) ==
    LET low == IF z_range.min = None \/ z_value < Val(z_range.min) THEN Some(z_value) ELSE z_range.min
        high == IF z_range.max = None \/ z_value > Val(z_range.max) THEN Some(z_value) ELSE z_range.max
    IN  [min |-> low, max |-> high]

RECURSIVE UpdateZRange(_, _)
UpdateZRange(z_range, zs) ==
    IF zs = <<>> THEN z_range ELSE UpdateZRange(update_z_range(z_range, Head(zs)), Tail(zs))

ZsOf(points) == [i \in DOMAIN points |-> points[i][3]]

process_mesh(a, e) ==
    [a EXCEPT !.z_range = UpdateZRange(@, ZsOf(e.vertices)),
              !.meshes = Append(@, [type |-> "MESH", layer |-> e.layer,
                                    vertex_count |-> Len(e.vertices), face_count |-> e.faces,
                                    is_closed |-> FALSE])]

process_spline(a, e) ==
    LET raised == SelectSeq(ZsOf(e.vertices), LAMBDA z : z # 0)
    IN  [a EXCEPT !.z_range = UpdateZRange(@, raised),
                  !.splines = Append(@, [type |-> "SPLINE", layer |-> e.layer, degree |-> 3,
                                         control_point_count |-> Len(e.vertices),
                                         is_closed |-> FALSE, is_periodic |-> FALSE,
                                         is_3d |-> raised # <<>>])]

check_2d_entity_3d_info(a, e) ==
    LET NonZero(o) == o # None /\ Val(o) # 0
        ZOf(p) == IF p = None THEN None ELSE Some(Val(p)[3])
        zs == (IF NonZero(e.elevation) THEN <<Val(e.elevation)>> ELSE <<>>)
              \o (IF NonZero(ZOf(e.start)) THEN <<Val(e.start)[3]>> ELSE <<>>)
              \o (IF NonZero(ZOf(e.end)) THEN <<Val(e.end)[3]>> ELSE <<>>)
    IN  [a EXCEPT !.z_range = UpdateZRange(@, zs),
                  !.is_3d_drawing = @ \/ zs # <<>> \/ NonZero(e.thickness)]

Counted3DTypes == {"3DSOLID", "SURFACE", "MESH", "SPLINE", "REGION", "BODY"}

(* One iteration of the entity loop: st carries the analyzer object and    *)
(* the local entity_counts.                                                *)
Process3DEntity(st, e) ==
    LET a == st.a
        entry == [type |-> e.type, layer |-> e.layer]
        a1 == CASE e.type = "3DSOLID" -> [a EXCEPT !.solids = Append(@, entry)]
                [] e.type = "SURFACE" -> [a EXCEPT !.surfaces = Append(@, entry)]
                [] e.type = "MESH" -> process_mesh(a, e)
                [] e.type = "SPLINE" -> process_spline(a, e)
                [] e.type = "REGION" -> [a EXCEPT !.regions = Append(@, entry)]
                [] e.type = "BODY" -> [a EXCEPT !.bodies = Append(@, entry)]
                [] e.type \notin Counted3DTypes /\ (e.elevation # None \/ e.thickness # None) ->
                       check_2d_entity_3d_info(a, e)
                [] OTHER -> a
    IN  [a |-> a1,
         entity_counts |-> IF e.type \in Counted3DTypes
                           THEN DSet(st.entity_counts, e.type, DGet(st.entity_counts, e.type, 0) + 1)
                           ELSE st.entity_counts]

RECURSIVE Process3DEntities(_, _)
Process3DEntities(st, msp) ==
    IF msp = <<>> THEN st ELSE Process3DEntities(Process3DEntity(st, Head(msp)), Tail(msp))

determine_if_3d(a) ==
    \/ a.solids # <<>> \/ a.surfaces # <<>> \/ a.meshes # <<>>
    \/ \E i \in DOMAIN a.splines : a.splines[i].is_3d
    \/ a.z_range.min # None /\ a.z_range.max # None /\ a.z_range.min # a.z_range.max
    \/ a.is_3d_drawing

analyze_solids(a) ==
    IF a.solids = <<>> THEN [count |-> 0]
    ELSE [count |-> Len(a.solids), layers |-> {a.solids[i].layer : i \in DOMAIN a.solids},
          has_acis_data |-> 0]

analyze_surfaces(a) ==
    IF a.surfaces = <<>> THEN [count |-> 0]
    ELSE [count |-> Len(a.surfaces), types |-> {a.surfaces[i].type : i \in DOMAIN a.surfaces},
          layers |-> {a.surfaces[i].layer : i \in DOMAIN a.surfaces}]

analyze_meshes(a) ==
    IF a.meshes = <<>> THEN [count |-> 0]
    ELSE [count |-> Len(a.meshes),
          total_vertices |-> SumSeq([i \in DOMAIN a.meshes |-> a.meshes[i].vertex_count]),
          total_faces |-> SumSeq([i \in DOMAIN a.meshes |-> a.meshes[i].face_count]),
          closed_meshes |-> 0]

ZSpan(z_range) == Abs(Val(z_range.max) - Val(z_range.min))

calculate_volumes(a) ==
    IF ~a.is_3d_drawing THEN [estimated |-> FALSE]
    ELSE [estimated |-> TRUE,
          z_height |-> IF a.z_range.min # None /\ a.z_range.max # None THEN ZSpan(a.z_range) ELSE 0,
          solid_count |-> Len(a.solids)]

calculate_3d_complexity(a) ==
    LET score == Len(a.solids) * 10 + Len(a.surfaces) * 8 + Len(a.meshes) * 6
                 + Len(SelectSeq(a.splines, LAMBDA s : s.is_3d)) * 4
    IN  CASE score = 0 -> "2D"
          [] score < 10 -> "simple 3D"
          [] score < 50 -> "medium 3D"
          [] score < 100 -> "complex 3D"
          [] OTHER -> "very complex 3D"

calculate_spatial_metrics(a) ==
    [is_3d |-> a.is_3d_drawing, z_range |-> a.z_range,
     complexity_3d |-> calculate_3d_complexity(a),
     z_span |-> IF a.is_3d_drawing /\ a.z_range.min # None THEN Some(ZSpan(a.z_range)) ELSE None]

(* analyze_3d_entities: the analyzer after the call and the dict returned  *)
(* (the keys '3d_entity_count' and '3d_entity_breakdown' are entity_count  *)
(* and entity_breakdown here).                                             *)
analyze_3d_entities(a, msp) ==
    LET st == Process3DEntities([a |-> a, entity_counts |-> EmptyDict], msp)
        a1 == [st.a EXCEPT !.is_3d_drawing = determine_if_3d(st.a)]
    IN  [a |-> a1,
         ret |-> [is_3d |-> a1.is_3d_drawing,
                  entity_count |-> Len(a1.solids) + Len(a1.surfaces) + Len(a1.meshes),
                  solids |-> analyze_solids(a1),
                  surfaces |-> analyze_surfaces(a1),
                  meshes |-> analyze_meshes(a1),
                  z_range |-> a1.z_range,
                  volume_info |-> calculate_volumes(a1),
                  spatial_metrics |-> calculate_spatial_metrics(a1),
                  entity_breakdown |-> st.entity_counts]]

ThreeDSummary(three_d_results) ==
    [is_3d |-> DGet(three_d_results, "is_3d", FALSE),
     bounding_box_diagonal |-> None,
     solid_count |-> Some(three_d_results.solids.count),
     mesh_count |-> Some(three_d_results.meshes.count)]

(* The job table is served to any authenticated user.                      *)
get_analysis_job_status_no_owner(jobs, job_id, username) ==
    IF job_id \notin DOMAIN jobs
    THEN HTTPException(404, "job not found", TRUE)
    ELSE [status_code |-> 200, detail |-> "",
          body |-> Some([job_id |-> job_id, status |-> jobs[job_id].status,
                         analysis_data |-> jobs[job_id].analysis_data,
                         error_message |-> jobs[job_id].error_message]),
          table_read |-> TRUE]

get_analysis_job_status(jobs, job_id, username) ==
    IF job_id \notin DOMAIN jobs
    THEN HTTPException(404, "job not found", TRUE)
    ELSE IF jobs[job_id].user # username
    THEN HTTPException(403, "not the owner", TRUE)
    ELSE [status_code |-> 200, detail |-> "",
          body |-> Some([job_id |-> job_id, status |-> jobs[job_id].status,
                         analysis_data |-> jobs[job_id].analysis_data,
                         error_message |-> jobs[job_id].error_message]),
          table_read |-> TRUE]

(* async with open(file_location, "wb"): open() creates the file, then     *)
(* entering the block raises, the file object of the builtin open having   *)
(* no __aenter__.                                                          *)
async_with_open(dir, path) ==
    [dir |-> DSet(dir, path, [kind |-> "unreadable", doc |-> None]), raised |-> "TypeError"]

-----------------------------------------------------------------------------
(* DXFComparison                                                           *)

MaxComparisons == 2

(* The orders in which Python may iterate over a set of strings.           *)
RECURSIVE Orderings(_)
Orderings(S) ==
    IF S = {} THEN {<<>>}
    ELSE UNION {{<<x>> \o rest : rest \in Orderings(S \ {x})} : x \in S}

(* sorted() of a set of numbers.                                           *)
RECURSIVE SortedNumbers(_)
SortedNumbers(S) ==
    IF S = {} THEN <<>>
    ELSE LET m == CHOOSE x \in S : \A y \in S : x <= y
         IN  <<m>> \o SortedNumbers(S \ {m})

(* sorted() of a set of strings: the strings of the entity pool in         *)
(* code-point order.                                                       *)
SortedStrings == <<"BOLT", "note", "title">>

SortedNames(S) == SelectSeq(SortedStrings, LAMBDA s : s \in S)

RecoloredLayers == <<Layer("0", 7, "CONTINUOUS"), Layer("L1", 5, "DASHED")>>

(* The CIRCLE of the pool with another radius.                             *)
ResizedCircle ==
    [EntityPool[3] EXCEPT !.radius = 3, !.extent = {<<2, 2>>, <<8, 8>>}]

(* The drawings compared: analysis_data of successfully analysed files.    *)
CompDrawings ==
    { [layers |-> DefaultLayers, entities |-> <<EntityPool[1]>>],
      [layers |-> DefaultLayers, entities |-> <<EntityPool[2]>>],
      [layers |-> NamedLayers, entities |-> <<EntityPool[1], EntityPool[3]>>],
      [layers |-> NamedLayers, entities |-> <<EntityPool[1], ResizedCircle>>],
      [layers |-> RecoloredLayers, entities |-> <<EntityPool[5], EntityPool[7]>>],
      [layers |-> NamedLayers, entities |-> <<EntityPool[10]>>] }

CompInputs ==
    { Val(analyze_dxf_file(DXFAnalyzerInit,
                           [filename |-> "drawing.dxf", kind |-> "dxf", doc |-> Some(d)]
                          ).a.analysis_data) : d \in CompDrawings }

DXFComparisonInit ==
    [file1_data |-> None, file2_data |-> None,
     differences |-> [added |-> EmptyDict, removed |-> EmptyDict, modified |-> EmptyDict,
                      summary |-> EmptyDict, file_info |-> None, entity_changes |-> None,
                      dimension_count_change |-> None, text_count_change |-> None]]

(* defaultdict(list): d[key].append(item), d[key] creating the list.       *)
ListAppend(d, key, item) == DSet(d, key, Append(DGet(d, key, <<>>), item))

RECURSIVE ListExtend(_, _, _)
ListExtend(d, key, items) ==
    IF items = <<>> THEN d
    ELSE ListExtend(ListAppend(d, key, Head(items)), key, Tail(items))

(* defaultdict(list): reading d[key] creates the empty list.               *)
Touch(d, key) == DSet(d, key, DGet(d, key, <<>>))

compare_file_info(diff, d1, d2) ==
    [diff EXCEPT !.file_info =
        Some([file1 |-> DGet(d1.file_info, "filename", "Unknown"),
              file2 |-> DGet(d2.file_info, "filename", "Unknown"),
              size_diff |-> DGet(d2.file_info, "size", 0) - DGet(d1.file_info, "size", 0),
              date1 |-> DGet(d1.file_info, "modified_time", "Unknown"),
              date2 |-> DGet(d2.file_info, "modified_time", "Unknown")])]

LayerNames(layers) == {layers[i].name : i \in DOMAIN layers}

(* {layer['name']: layer for layer in layers}[name]: the last of that name.*)
LayerNamed(layers, name) ==
    layers[CHOOSE i \in DOMAIN layers :
              /\ layers[i].name = name
              /\ \A j \in DOMAIN layers : layers[j].name = name => j <= i]

LayerChanges(layer1, layer2) ==
    (IF layer1.color # layer2.color
     THEN <<[property |-> "color", old |-> layer1.color, new |-> layer2.color]>>
     ELSE <<>>)
    \o (IF layer1.linetype # layer2.linetype
        THEN <<[property |-> "linetype", old |-> layer1.linetype, new |-> layer2.linetype]>>
        ELSE <<>>)

(* _compare_layers, the three sets iterated in the given orders.           *)
compare_layers(diff, d1, d2, added_order, removed_order, common_order) ==
    LET changed == SelectSeq(common_order,
                             LAMBDA n : LayerChanges(LayerNamed(d1.layers, n),
                                                     LayerNamed(d2.layers, n)) # <<>>)
    IN  [diff EXCEPT
           !.added = ListExtend(@, "layers",
                        [i \in DOMAIN added_order |-> LayerNamed(d2.layers, added_order[i])]),
           !.removed = ListExtend(@, "layers",
                        [i \in DOMAIN removed_order |-> LayerNamed(d1.layers, removed_order[i])]),
           !.modified = ListExtend(@, "layers",
                        [i \in DOMAIN changed |->
                            [name |-> changed[i],
                             changes |-> LayerChanges(LayerNamed(d1.layers, changed[i]),
                                                      LayerNamed(d2.layers, changed[i]))]])]

(* _compare_entities, the set of types iterated in the given order; the    *)
(* sort by |difference| is stable.                                         *)
compare_entities(diff, d1, d2, type_order) ==
    LET change(t) ==
            [type |-> t, old_count |-> AGet(d1.entity_breakdown, t, 0),
             new_count |-> AGet(d2.entity_breakdown, t, 0),
             difference |-> AGet(d2.entity_breakdown, t, 0) - AGet(d1.entity_breakdown, t, 0)]
        changes == SelectSeq([i \in DOMAIN type_order |-> change(type_order[i])],
                             LAMBDA c : c.old_count # c.new_count)
        sorted == SortDesc([i \in DOMAIN changes |->
                               [k |-> changes[i], v |-> Abs(changes[i].difference)]])
    IN  [diff EXCEPT !.entity_changes = Some([i \in DOMAIN sorted |-> sorted[i].k])]

(* Keys of added/removed that are assigned only when there is something to *)
(* record.                                                                 *)
SetIfAny(d, key, items) == IF items = <<>> THEN d ELSE DSet(d, key, items)

CountChange(old, new) == [old |-> old, new |-> new, difference |-> new - old]

compare_dimensions(diff, d1, d2) ==
    LET Values(dims) == {Val(dims[i].measurement) :
                            i \in {j \in DOMAIN dims : /\ dims[j].measurement # None
                                                       /\ Val(dims[j].measurement) # 0}}
        values1 == Values(d1.dimensions)
        values2 == Values(d2.dimensions)
    IN  [diff EXCEPT
           !.added = SetIfAny(@, "dimension_values", SortedNumbers(values2 \ values1)),
           !.removed = SetIfAny(@, "dimension_values", SortedNumbers(values1 \ values2)),
           !.dimension_count_change =
               Some(CountChange(Len(d1.dimensions), Len(d2.dimensions)))]

(* The texts of the entity pool carry no surrounding white space for       *)
(* strip() to remove.                                                      *)
compare_texts(diff, d1, d2) ==
    LET Contents(texts) == {texts[i].text : i \in {j \in DOMAIN texts : texts[j].text # ""}}
        content1 == Contents(d1.texts)
        content2 == Contents(d2.texts)
    IN  [diff EXCEPT
           !.added = SetIfAny(@, "texts", SortedNames(content2 \ content1)),
           !.removed = SetIfAny(@, "texts", SortedNames(content1 \ content2)),
           !.text_count_change = Some(CountChange(Len(d1.texts), Len(d2.texts)))]

compare_blocks(diff, d1, d2) ==
    LET names1 == {d1.blocks[i].name : i \in DOMAIN d1.blocks}
        names2 == {d2.blocks[i].name : i \in DOMAIN d2.blocks}
    IN  [diff EXCEPT
           !.added = SetIfAny(@, "blocks", SortedNames(names2 \ names1)),
           !.removed = SetIfAny(@, "blocks", SortedNames(names1 \ names2))]

(* sum(len(items) for items in d.values())                                 *)
TotalItems(d) ==
    LET keys == SelectSeq(<<"layers", "dimension_values", "texts", "blocks">>,
                          LAMBDA k : k \in DOMAIN d)
    IN  SumSeq([i \in DOMAIN keys |-> Len(d[keys[i]])])

generate_summary(diff) ==
    LET total_additions == TotalItems(diff.added)
        total_removals == TotalItems(diff.removed)
        total_modifications == TotalItems(diff.modified)
        total_changes == total_additions + total_removals + total_modifications
        change_level == IF total_changes = 0 THEN "none"
                        ELSE IF total_changes < 5 THEN "minor"
                        ELSE IF total_changes < 20 THEN "moderate"
                        ELSE "major"
        added == Touch(diff.added, "layers")
        removed == IF added["layers"] # <<>> THEN diff.removed
                   ELSE Touch(diff.removed, "layers")
        layers_changed == added["layers"] # <<>> \/ removed["layers"] # <<>>
        entity_changes == IF diff.entity_changes = None THEN <<>> ELSE Val(diff.entity_changes)
        bulk == SelectSeq(entity_changes, LAMBDA c : Abs(c.difference) > 50)
    IN  [diff EXCEPT
           !.added = added,
           !.removed = removed,
           !.summary =
               [total_additions |-> total_additions,
                total_removals |-> total_removals,
                total_modifications |-> total_modifications,
                has_significant_changes |-> change_level = "major",
                change_level |-> change_level,
                major_changes |->
                    (IF layers_changed THEN <<<<"layer_structure_changed">>>> ELSE <<>>)
                    \o [i \in DOMAIN bulk |-> <<bulk[i].type, bulk[i].difference>>]]]

(* compare_dxf_files on a comparison object: the object afterwards.  The   *)
(* value returned is its differences dict itself.                          *)
compare_dxf_files(c, d1, d2, added_order, removed_order, common_order, type_order) ==
    LET diff1 == compare_file_info(c.differences, d1, d2)
        diff2 == compare_layers(diff1, d1, d2, added_order, removed_order, common_order)
        diff3 == compare_entities(diff2, d1, d2, type_order)
        diff4 == compare_dimensions(diff3, d1, d2)
        diff5 == compare_texts(diff4, d1, d2)
        diff6 == compare_blocks(diff5, d1, d2)
    IN  [file1_data |-> Some(d1), file2_data |-> Some(d2),
         differences |-> generate_summary(diff6)]

(* generate_comparison_report, kept as its parts in the order they are     *)
(* written; the time stamp of the last line is left out.                   *)
generate_comparison_report(c) ==
    LET diff == c.differences
        summary == diff.summary
        entity_changes == IF diff.entity_changes = None THEN <<>> ELSE Val(diff.entity_changes)
        added_layers == DGet(diff.added, "layers", <<>>)
        removed_layers == DGet(diff.removed, "layers", <<>>)
        added_dims == DGet(diff.added, "dimension_values", <<>>)
        added_texts == DGet(diff.added, "texts", <<>>)
        dim_difference == IF diff.dimension_count_change = None THEN 0
                          ELSE Val(diff.dimension_count_change).difference
        text_difference == IF diff.text_count_change = None THEN 0
                           ELSE Val(diff.text_count_change).difference
    IN  [file1 |-> IF diff.file_info = None THEN "Unknown" ELSE Val(diff.file_info).file1,
         file2 |-> IF diff.file_info = None THEN "Unknown" ELSE Val(diff.file_info).file2,
         size_diff |-> IF diff.file_info = None THEN 0 ELSE Val(diff.file_info).size_diff,
         change_level |-> DGet(summary, "change_level", "unknown"),
         total_additions |-> DGet(summary, "total_additions", 0),
         total_removals |-> DGet(summary, "total_removals", 0),
         total_modifications |-> DGet(summary, "total_modifications", 0),
         major_changes |-> DGet(summary, "major_changes", <<>>),
         added_layers |-> [i \in DOMAIN added_layers |->
                              [name |-> added_layers[i].name, color |-> added_layers[i].color]],
         removed_layers |-> [i \in DOMAIN removed_layers |-> removed_layers[i].name],
         modified_layers |-> DGet(diff.modified, "layers", <<>>),
         entity_rows |-> Take(entity_changes, 10),
         dimension_change |->
             IF dim_difference = 0 THEN None
             ELSE Some([count |-> Val(diff.dimension_count_change),
                        added |-> IF Len(added_dims) <= 10 THEN Take(added_dims, 5) ELSE <<>>]),
         text_change |->
             IF text_difference = 0 THEN None
             ELSE Some([count |-> Val(diff.text_count_change),
                        added |-> IF Len(added_texts) <= 5 THEN added_texts ELSE <<>>]),
         added_blocks |-> Take(DGet(diff.added, "blocks", <<>>), 5),
         removed_blocks |-> Take(DGet(diff.removed, "blocks", <<>>), 5)]

-----------------------------------------------------------------------------
(* Bounds of the report specification.                                     *)

MaxReportEntities == 1

MaxDummies == 1

(* The entity types the report has a table for.                            *)
ReportTypes == {"LINE", "CIRCLE", "TEXT", "DIMENSION"}

ReportFiles ==
    {f \in Files :
        f.kind = "dxf" =>
            /\ Val(f.doc).layers = NamedLayers
            /\ Len(Val(f.doc).entities) <= MaxReportEntities
            /\ \A i \in DOMAIN Val(f.doc).entities : Val(f.doc).entities[i].type \in ReportTypes}

HasResults(a) == a # DXFAnalyzerInit

-----------------------------------------------------------------------------
(* DXFAutoFix (dxf_auto_fix.py).  The messages of fixes_applied are kept   *)
(* as their text with the number formatted into it; text heights of the    *)
(* loaded document are kept in tenths, so that min_text_height = 2.5 is 25.*)

MaxFixEntities == 2

MaxFixesApplied == 2

MinTextHeight == 25

Message(text, n) == [text |-> text, n |-> n]

DXFAutoFixInit == [doc |-> None, fixes_applied |-> <<>>, backup_created |-> FALSE]

FixPool ==
    << EntityPool[1], EntityPool[3], EntityPool[5],
       [Entity("TEXT", "L2") EXCEPT !.text = "tiny", !.height = 1],
       [Entity("LINE", "L1") EXCEPT !.start = <<4, 4>>, !.end = <<4, 4>>,
                                     !.extent = {<<4, 4>>}],
       [Entity("CIRCLE", "L1") EXCEPT !.center = <<1, 1, 0>>, !.extent = {<<1, 1>>}] >>

RECURSIVE FixModelSpaces(_)
FixModelSpaces(n) ==
    IF n = 0 THEN {<<>>}
    ELSE {<<>>} \cup {<<FixPool[i]>> \o rest : i \in DOMAIN FixPool, rest \in FixModelSpaces(n - 1)}

FixLayers ==
    { DefaultLayers, NamedLayers,
      <<Layer("0", 7, "CONTINUOUS"), Layer("DIM", 7, "CONTINUOUS"), Layer("Text", 7, "CONTINUOUS")>> }

FixFiles ==
    { [filename |-> "missing.dxf", kind |-> "missing", doc |-> None] }
    \cup { [filename |-> "broken.dxf", kind |-> "unreadable", doc |-> None] }
    \cup { [filename |-> "drawing.dxf", kind |-> "dxf", doc |-> Some([layers |-> NamedLayers, entities |-> e])] :
               e \in FixModelSpaces(MaxFixEntities) }
    \cup { [filename |-> "drawing.dxf", kind |-> "dxf", doc |-> Some([layers |-> l, entities |-> e])] :
               l \in FixLayers, e \in FixModelSpaces(1) }

(* The advanced analyses a caller hands to auto_fix_all: none, or a dict   *)
(* with anomalies and standards_compliance.violations.                     *)
Violation(type, layer_name) == [type |-> type, layer_name |-> layer_name]

AdvancedAnalyses ==
    { None }
    \cup { Some([anomalies |-> a, standards_compliance |-> [violations |-> v]]) :
               a \in { <<>>, <<Anomaly("duplicate_circle", "warning", <<"duplicate_circle", <<5, 5, 0>>>>)>> },
               v \in { <<>>, <<Violation("layer_color", None)>>, <<Violation("linetype", Some("L2"))>> } }

HeightsInTenths(d) ==
    LET ents == d.entities
    IN  [d EXCEPT !.entities = [i \in DOMAIN ents |-> [ents[i] EXCEPT !.height = @ * 10]]]

load_file(fx, f) ==
    IF f.kind = "dxf"
    THEN [fx |-> [fx EXCEPT !.doc = Some(HeightsInTenths(Val(f.doc)))], ret |-> TRUE]
    ELSE [fx |-> fx, ret |-> FALSE]

create_backup(fx, f) ==
    IF f.kind = "missing" THEN [fx |-> fx, ret |-> ""]
    ELSE [fx |-> [fx EXCEPT !.backup_created = TRUE], ret |-> f.filename]

(* The words of the layer-colour rules found in name.lower(), and          *)
(* name.upper(), over the layer names of the model.                        *)
LayerWords(name) ==
    CASE name \in {"DIM", "DIMENSION"} -> {"dim"}
      [] name = "CENTER" -> {"center"}
      [] name = "HIDDEN" -> {"hidden"}
      [] OTHER -> {}

upper(name) == IF name = "Text" THEN "TEXT" ELSE name

StandardLayers ==
    << Layer("DIMENSION", 2, "CONTINUOUS"), Layer("CENTER", 1, "CENTER"),
       Layer("HIDDEN", 3, "HIDDEN"), Layer("TEXT", 4, "CONTINUOUS"),
       Layer("HATCH", 254, "CONTINUOUS") >>

FixedLayerColor(name) ==
    IF "dim" \in LayerWords(name) THEN 2
    ELSE IF "center" \in LayerWords(name) THEN 1 ELSE 0

fix_layer_issues(fx) ==
    LET doc == Val(fx.doc)
        only0 == {doc.layers[i].name : i \in DOMAIN doc.layers} = {"0"} /\ Len(doc.layers) = 1
        layers1 == IF only0 THEN doc.layers \o StandardLayers ELSE doc.layers
        created == IF only0
                   THEN [i \in DOMAIN StandardLayers |->
                            [type |-> "layer_created", name |-> StandardLayers[i].name,
                             color |-> StandardLayers[i].color,
                             linetype |-> StandardLayers[i].linetype]]
                   ELSE <<>>
        wrong == SelectSeq(layers1, LAMBDA l : FixedLayerColor(l.name) # 0 /\ l.color # FixedLayerColor(l.name))
        layers2 == [i \in DOMAIN layers1 |->
                       IF FixedLayerColor(layers1[i].name) # 0
                       THEN [layers1[i] EXCEPT !.color = FixedLayerColor(layers1[i].name)]
                       ELSE layers1[i]]
        recolored == [i \in DOMAIN wrong |->
                         [type |-> "layer_color_fixed", name |-> wrong[i].name,
                          old_color |-> wrong[i].color, new_color |-> FixedLayerColor(wrong[i].name)]]
    IN  [fx |-> [fx EXCEPT !.doc = Some([doc EXCEPT !.layers = layers2]),
                           !.fixes_applied = IF only0 THEN Append(@, Message("standard layers created", None))
                                             ELSE @],
         fixes |-> created \o recolored]

CircleKey(c) == <<c.center[1], c.center[2], c.radius>>

fix_duplicates(fx, advanced_analysis) ==
    IF advanced_analysis = None THEN [fx |-> fx, fixes |-> [count |-> 0, details |-> <<>>]]
    ELSE
      LET doc == Val(fx.doc)
          ents == doc.entities
          anomalies == Val(advanced_analysis).anomalies
          duplicate_circles == SelectSeq(anomalies, LAMBDA a : a.type = "duplicate_circle")
          Seen(i) == \E j \in 1..(i - 1) : ents[j].type = "CIRCLE" /\ CircleKey(ents[j]) = CircleKey(ents[i])
          Dup(i) == duplicate_circles # <<>> /\ ents[i].type = "CIRCLE" /\ Seen(i)
          kept == {i \in DOMAIN ents : ~Dup(i)}
          gone == {i \in DOMAIN ents : Dup(i)}
          Nth(S, k) == CHOOSE i \in S : Cardinality({j \in S : j < i}) = k - 1
          removed_count == Cardinality(gone)
      IN  [fx |-> [fx EXCEPT !.doc = Some([doc EXCEPT !.entities =
                                 [k \in 1..Cardinality(kept) |-> ents[Nth(kept, k)]]]),
                             !.fixes_applied = IF removed_count > 0
                                               THEN Append(@, Message("duplicate circles removed", Some(removed_count)))
                                               ELSE @],
           fixes |-> [count |-> removed_count,
                      details |-> [k \in 1..removed_count |->
                                      [type |-> "circle", key |-> CircleKey(ents[Nth(gone, k)])]]]]

(* Layer names of the model hold none of the Korean words of the colour    *)
(* and linetype rules, so a violation that names a layer of the document   *)
(* is recorded as fixed and leaves the layer as it is.                     *)
fix_standard_compliance(fx, advanced_analysis) ==
    IF advanced_analysis = None THEN [fx |-> fx, fixes |-> <<>>]
    ELSE
      LET doc == Val(fx.doc)
          violations == Val(advanced_analysis).standards_compliance.violations
          names == {doc.layers[i].name : i \in DOMAIN doc.layers}
          hits == SelectSeq(violations, LAMBDA v : /\ v.type \in {"layer_color", "linetype"}
                                                   /\ v.layer_name # None
                                                   /\ Val(v.layer_name) \in names)
          fixes == [i \in DOMAIN hits |->
                      [type |-> IF hits[i].type = "layer_color" THEN "standard_color_applied"
                                ELSE "standard_linetype_applied",
                       layer |-> Val(hits[i].layer_name), standard |-> "ISO"]]
      IN  [fx |-> [fx EXCEPT !.fixes_applied = IF fixes # <<>>
                                               THEN Append(@, Message("standard compliance fixes", Some(Len(fixes))))
                                               ELSE @],
           fixes |-> fixes]

IsText(e) == e.type \in {"TEXT", "MTEXT"}

fix_text_issues(fx) ==
    LET doc == Val(fx.doc)
        ents == doc.entities
        small == SelectSeq(ents, LAMBDA e : IsText(e) /\ e.height < MinTextHeight)
        ents1 == [i \in DOMAIN ents |->
                     IF IsText(ents[i]) /\ ents[i].height < MinTextHeight
                     THEN [ents[i] EXCEPT !.height = MinTextHeight] ELSE ents[i]]
        height_fixes == [i \in DOMAIN small |->
                            [type |-> "text_height_fixed", old_height |-> small[i].height,
                             new_height |-> MinTextHeight, content |-> small[i].text]]
        text_layer_exists == \E i \in DOMAIN doc.layers : upper(doc.layers[i].name) = "TEXT"
        text_moved == IF text_layer_exists
                      THEN Cardinality({i \in DOMAIN ents1 : IsText(ents1[i]) /\ ents1[i].layer # "TEXT"})
                      ELSE 0
        ents2 == [i \in DOMAIN ents1 |->
                     IF text_layer_exists /\ IsText(ents1[i]) THEN [ents1[i] EXCEPT !.layer = "TEXT"]
                     ELSE ents1[i]]
    IN  [fx |-> [fx EXCEPT !.doc = Some([doc EXCEPT !.entities = ents2]),
                           !.fixes_applied = IF text_moved > 0
                                             THEN Append(@, Message("texts moved to TEXT layer", Some(text_moved)))
                                             ELSE @],
         fixes |-> height_fixes \o (IF text_moved > 0
                                    THEN <<[type |-> "text_layer_organized", count |-> text_moved]>>
                                    ELSE <<>>)]

ZeroSized(e) ==
    \/ e.type = "LINE" /\ e.start = e.end
    \/ e.type \in {"CIRCLE", "ARC"} /\ e.radius = 0

fix_zero_length_entities(fx) ==
    LET doc == Val(fx.doc)
        ents == doc.entities
        entities_to_remove == SelectSeq(ents, ZeroSized)
        removed_count == Len(entities_to_remove)
    IN  [fx |-> [fx EXCEPT !.doc = Some([doc EXCEPT !.entities = SelectSeq(ents, LAMBDA e : ~ZeroSized(e))]),
                           !.fixes_applied = IF removed_count > 0
                                             THEN Append(@, Message("zero-sized entities removed", Some(removed_count)))
                                             ELSE @],
         fixes |-> [i \in DOMAIN entities_to_remove |->
                       [type |-> CASE entities_to_remove[i].type = "LINE" -> "zero_length_line"
                                   [] entities_to_remove[i].type = "CIRCLE" -> "zero_radius_circle"
                                   [] OTHER -> "zero_radius_arc",
                        position |-> IF entities_to_remove[i].type = "LINE"
                                     THEN entities_to_remove[i].start
                                     ELSE <<entities_to_remove[i].center[1], entities_to_remove[i].center[2]>>]]]

(* auto_fix_all: the fixer after the call and the dict returned.           *)
(* analysis_data is read by none of the fixes.                             *)
auto_fix_all(fx, analysis_data, advanced_analysis) ==
    IF fx.doc = None
    THEN [fx |-> fx, ret |-> [success |-> FALSE, error |-> "no document loaded"]]
    ELSE
      LET l == fix_layer_issues(fx)
          d == fix_duplicates(l.fx, advanced_analysis)
          s == fix_standard_compliance(d.fx, advanced_analysis)
          t == fix_text_issues(s.fx)
          z == fix_zero_length_entities(t.fx)
          total_fixes == Len(l.fixes) + d.fixes.count + Len(s.fixes) + Len(t.fixes) + Len(z.fixes)
      IN  [fx |-> z.fx,
           ret |-> [layer_fixes |-> l.fixes, duplicate_fixes |-> d.fixes,
                    standard_fixes |-> s.fixes, text_fixes |-> t.fixes,
                    zero_length_fixes |-> z.fixes,
                    summary |-> [total_fixes |-> total_fixes,
                                 backup_created |-> z.fx.backup_created,
                                 fixes_applied |-> z.fx.fixes_applied,
                                 success |-> total_fixes > 0]]]

-----------------------------------------------------------------------------
(* DXFAIIntegration (dxf_ai_integration.py).  A client is the kind of      *)
(* callable the integration runs in a worker thread: "sync" returns the    *)
(* provider's response, "async" (the AsyncMock the tests install) returns  *)
(* a coroutine that nobody awaits.  A text is its sequence of lines.       *)

Providers == {"openai", "claude", "gemini"}

TextLine(keywords, bullet, body) == [keywords |-> keywords, bullet |-> bullet, body |-> body]

PlainText == <<TextLine({}, FALSE, "mock analysis result.")>>

AdviceText ==
    << TextLine({"issue"}, FALSE, "issues:"), TextLine({}, TRUE, "one layer only"),
       TextLine({}, FALSE, "so much for that"),
       TextLine({"recommend"}, FALSE, "recommendations:"), TextLine({}, TRUE, "add layers"),
       TextLine({}, TRUE, "add dimensions") >>

ProviderTexts == {<<>>, PlainText, AdviceText}

(* What the provider does when it is called.                               *)
ProviderReplies ==
    [kind : {"text"}, text : ProviderTexts]
    \cup [kind : {"api_error", "timeout"}, text : {<<>>}]

(* Each template of _load_prompts with the one field its text names.       *)
PromptFields ==
    [analysis |-> "analysis_data", comparison |-> "comparison_data", autofix |-> "issues_data",
     design_review |-> "design_data", cnc_analysis |-> "analysis_data",
     cost_estimation |-> "analysis_data"]

PromptTypes == DOMAIN PromptFields \cup {"unknown"}

AiAnalysisData ==
    { [file_info |-> EmptyDict, summary_info |-> [total_entities |-> 10], layers |-> <<>>,
       entity_breakdown |-> EmptyDict],
      [file_info |-> EmptyDict, layers |-> NamedLayers, total_entities |-> 3, quality_score |-> 85,
       quality_grade |-> "B",
       anomalies |-> <<Anomaly("duplicate_circle", "warning", <<"duplicate_circle", <<5, 5, 0>>>>)>>] }

(* __init__ with the API keys of the environment and the client libraries  *)
(* that could be imported.                                                 *)
DXFAIIntegrationInit(keys, available) ==
    [openai_api_key |-> IF "openai" \in keys THEN Some("key") ELSE None,
     claude_api_key |-> IF "claude" \in keys THEN Some("key") ELSE None,
     gemini_api_key |-> IF "gemini" \in keys THEN Some("key") ELSE None,
     openai_create |-> "sync",
     claude_client |-> IF "claude" \in keys /\ "claude" \in available THEN Some("sync") ELSE None,
     gemini_model |-> IF "gemini" \in keys /\ "gemini" \in available THEN Some("sync") ELSE None,
     available |-> available]

is_api_key_configured(ai, model_type) ==
    CASE model_type = "openai" -> ai.openai_api_key # None
      [] model_type = "claude" ->
             ai.claude_api_key # None /\ "claude" \in ai.available /\ ai.claude_client # None
      [] model_type = "gemini" ->
             ai.gemini_api_key # None /\ "gemini" \in ai.available /\ ai.gemini_model # None

prepare_data_for_ai(analysis_data) ==
    LET base == [file_info |-> DGet(analysis_data, "file_info", EmptyDict),
                 summary |-> DGet(analysis_data, "summary", EmptyDict),
                 entity_breakdown |-> DGet(analysis_data, "entity_breakdown", EmptyDict),
                 layer_count |-> Len(DGet(analysis_data, "layers", <<>>)),
                 total_entities |-> DGet(analysis_data, "total_entities", 0),
                 quality |-> IF "quality_score" \in DOMAIN analysis_data
                             THEN Some([score |-> analysis_data.quality_score,
                                        grade |-> DGet(analysis_data, "quality_grade", None)])
                             ELSE None,
                 anomaly_count |-> None, anomaly_types |-> {}]
    IN  IF "anomalies" \in DOMAIN analysis_data
        THEN [base EXCEPT !.anomaly_count = Some(Len(analysis_data.anomalies)),
                          !.anomaly_types = {analysis_data.anomalies[i].type :
                                                 i \in DOMAIN analysis_data.anomalies}]
        ELSE base

(* self.prompts[prompt_type].format(analysis_data=...): None where the     *)
(* lookup or the formatting raises KeyError.                               *)
FormatPrompt(prompt_type, summary) ==
    IF prompt_type \in DOMAIN PromptFields /\ PromptFields[prompt_type] = "analysis_data"
    THEN Some([template |-> prompt_type, analysis_data |-> summary])
    ELSE None

(* The client a provider's call goes through.                              *)
ClientOf(ai, provider) ==
    CASE provider = "openai" -> Some(ai.openai_create)
      [] provider = "claude" -> ai.claude_client
      [] provider = "gemini" -> ai.gemini_model

(* _call_<provider>_async: how often the provider's client was called      *)
(* and the text returned, None where the call raises.                      *)
call_provider_async(ai, provider, reply) ==
    IF ~is_api_key_configured(ai, provider) THEN [invocations |-> 0, response |-> None]
    ELSE IF ClientOf(ai, provider) = Some("sync") /\ reply.kind = "text"
         THEN [invocations |-> 1, response |-> Some(reply.text)]
         ELSE [invocations |-> 1, response |-> None]

call_openai_async(ai, reply) == call_provider_async(ai, "openai", reply)

call_claude_async(ai, reply) == call_provider_async(ai, "claude", reply)

call_gemini_async(ai, reply) == call_provider_async(ai, "gemini", reply)

(* The bullet lines that follow the first line holding a keyword, up to    *)
(* the first other line after a bullet.                                    *)
RECURSIVE ExtractSection(_, _, _, _)
ExtractSection(lines, keyword, in_section, found) ==
    IF lines = <<>> THEN found
    ELSE LET line == Head(lines)
         IN  IF keyword \in line.keywords THEN ExtractSection(Tail(lines), keyword, TRUE, found)
             ELSE IF in_section /\ line.bullet
                  THEN ExtractSection(Tail(lines), keyword, in_section, Append(found, line.body))
             ELSE IF in_section /\ found # <<>> THEN found
             ELSE ExtractSection(Tail(lines), keyword, in_section, found)

extract_recommendations(ai_response) == Take(ExtractSection(ai_response, "recommend", FALSE, <<>>), 5)

extract_issues(ai_response) == Take(ExtractSection(ai_response, "issue", FALSE, <<>>), 5)

(* analyze_with_<provider>: the invocations of the provider's client and   *)
(* the dict returned.                                                      *)
AnalyzeWith(ai, provider, model, enabled, called, analysis_data, prompt_type) ==
    IF ~enabled THEN [invocations |-> 0, ret |-> [error |-> "not configured"]]
    ELSE
      LET prompt == FormatPrompt(prompt_type, prepare_data_for_ai(analysis_data))
      IN  IF prompt = None THEN [invocations |-> 0, ret |-> [error |-> "KeyError"]]
          ELSE IF called.response = None
               THEN [invocations |-> called.invocations, ret |-> [error |-> "provider call failed"]]
               ELSE [invocations |-> called.invocations,
                     ret |-> [model |-> model, prompt_type |-> prompt_type,
                              analysis |-> Val(called.response),
                              recommendations |-> extract_recommendations(Val(called.response)),
                              issues |-> extract_issues(Val(called.response))]]

analyze_with_openai(ai, d, t, reply) == AnalyzeWith(ai, "openai", "gpt-4", ai.openai_api_key # None, call_openai_async(ai, reply), d, t)

analyze_with_claude(ai, d, t, reply) == AnalyzeWith(ai, "claude", "claude-3", ai.claude_client # None, call_claude_async(ai, reply), d, t)

analyze_with_gemini(ai, d, t, reply) == AnalyzeWith(ai, "gemini", "gemini-pro", ai.gemini_model # None, call_gemini_async(ai, reply), d, t)

analyze_with(ai, provider, d, t, reply) ==
    CASE provider = "openai" -> analyze_with_openai(ai, d, t, reply)
      [] provider = "claude" -> analyze_with_claude(ai, d, t, reply)
      [] provider = "gemini" -> analyze_with_gemini(ai, d, t, reply)

NoAiCall ==
    [op |-> "init", provider |-> None, prompt_type |-> None, configured |-> FALSE,
     reply |-> None, invocations |-> 0, ret |-> None]

-----------------------------------------------------------------------------
(* DXFCNCAnalyzer (dxf_cnc_analyzer.py).  Radii are in tenths of a drawing *)
(* unit, coordinates and lengths in whole units, scores in tenths of a     *)
(* point.                                                                  *)

MaxCncEntities == 2

(* The thresholds of _analyze_geometry.                                    *)
SmallRadius == 10

ManyHoles == 20

LongCutLength == 1000

complexity_weights ==
    [small_radius |-> 20, deep_pocket |-> 15, thin_wall |-> 18,
     tight_tolerance |-> 16, complex_contour |-> 14]

material_params ==
    [aluminum |-> [machinability_factor |-> 10, cost_factor |-> 10],
     steel |-> [machinability_factor |-> 15, cost_factor |-> 13],
     stainless_steel |-> [machinability_factor |-> 20, cost_factor |-> 16],
     titanium |-> [machinability_factor |-> 30, cost_factor |-> 25]]

(* The materials a caller names; brass is in neither table.                *)
Materials == DOMAIN material_params \cup {"brass"}

CncEntity(type, radius, angles, points, closed) ==
    [type |-> type, radius |-> radius, angles |-> angles, points |-> points, closed |-> closed]

Hole == CncEntity("CIRCLE", 50, <<0, 0>>, <<>>, FALSE)

CncPool ==
    << CncEntity("CIRCLE", 5, <<0, 0>>, <<>>, FALSE),
       Hole,
       CncEntity("ARC", 20, <<0, 90>>, <<>>, FALSE),
       CncEntity("LINE", 0, <<0, 0>>, <<<<0, 0, 0>>, <<1200, 0, 0>>>>, FALSE),
       CncEntity("LINE", 0, <<0, 0>>, <<<<0, 0, 0>>, <<3, 4, 0>>>>, FALSE),
       CncEntity("LWPOLYLINE", 0, <<0, 0>>, <<<<0, 0>>, <<4, 0>>, <<4, 3>>>>, TRUE),
       CncEntity("TEXT", 0, <<0, 0>>, <<>>, FALSE) >>

RECURSIVE CncSequences(_)
CncSequences(n) ==
    IF n = 0 THEN {<<>>}
    ELSE {<<>>} \cup {<<CncPool[i]>> \o rest : i \in DOMAIN CncPool, rest \in CncSequences(n - 1)}

(* Model spaces of up to MaxCncEntities entities, and model spaces with a  *)
(* pattern of one hole more than ManyHoles.                                *)
CncModelSpaces ==
    CncSequences(MaxCncEntities)
    \cup {s \o Repeat(Hole, ManyHoles + 1) : s \in CncSequences(1)}

CncFiles ==
    { [kind |-> "unreadable", msp |-> <<>>] }
    \cup { [kind |-> "dxf", msp |-> msp] : msp \in CncModelSpaces }

(* float('inf') is None.                                                   *)
GeometryInit ==
    [total_entities |-> 0, contours |-> <<>>, pockets |-> <<>>, holes |-> <<>>,
     min_radius |-> None, max_depth |-> 0, min_wall_thickness |-> None,
     total_cut_length |-> 0, bounding_box |-> None, complexity_features |-> <<>>]

Below(x, limit) == x # None /\ Val(x) < limit

LowerRadius(min_radius, radius) ==
    IF min_radius = None \/ radius < Val(min_radius) THEN Some(radius) ELSE min_radius

(* radius * math.radians(abs(end - start)), in whole units, with 355/113   *)
(* for pi.                                                                 *)
ArcLength(radius, angles) == (radius * Abs(angles[2] - angles[1]) * 355) \div (113 * 180 * 10)

(* math.sqrt of the summed squared differences of two points.              *)
Distance(p, q) == ISqrt(SumSeq([i \in 1..MinOf(Len(p), Len(q)) |-> (q[i] - p[i]) * (q[i] - p[i])]))

RECURSIVE PathLength(_)
PathLength(points) ==
    IF Len(points) < 2 THEN 0
    ELSE Distance(<<points[1][1], points[1][2]>>, <<points[2][1], points[2][2]>>)
         + PathLength(Tail(points))

(* _calculate_polygon_area, in tenths.                                     *)
calculate_polygon_area(points) ==
    LET n == Len(points)
        cross == [i \in 1..n |->
                    points[i][1] * points[(i % n) + 1][2] - points[(i % n) + 1][1] * points[i][2]]
    IN  Abs(SumSeq(cross)) * 5

(* One pass of the entity loop of _analyze_geometry.                       *)
AnalyzeCncEntity(g, e) ==
    LET g1 == [g EXCEPT !.total_entities = @ + 1]
    IN  CASE e.type = "CIRCLE" ->
               [g1 EXCEPT !.holes = Append(@, [radius |-> e.radius, diameter |-> e.radius * 2]),
                          !.min_radius = LowerRadius(@, e.radius)]
          [] e.type = "ARC" ->
               [g1 EXCEPT !.min_radius = LowerRadius(@, e.radius),
                          !.total_cut_length = @ + ArcLength(e.radius, e.angles)]
          [] e.type = "LINE" ->
               [g1 EXCEPT !.total_cut_length = @ + Distance(e.points[1], e.points[2])]
          [] e.type = "LWPOLYLINE" /\ Len(e.points) > 2 ->
               [g1 EXCEPT !.contours =
                              IF e.closed
                              THEN Append(@, [type |-> "closed_polyline", points |-> e.points,
                                              area |-> calculate_polygon_area(e.points)])
                              ELSE @,
                          !.total_cut_length = @ + PathLength(e.points)]
          [] OTHER -> g1

RECURSIVE AnalyzeCncEntities(_, _)
AnalyzeCncEntities(g, msp) ==
    IF msp = <<>> THEN g
    ELSE AnalyzeCncEntities(AnalyzeCncEntity(g, Head(msp)), Tail(msp))

analyze_geometry(modelspace) ==
    LET g == AnalyzeCncEntities(GeometryInit, modelspace)
        f1 == IF Below(g.min_radius, SmallRadius) THEN <<"small_radius_corners">> ELSE <<>>
        f2 == IF Len(g.holes) > ManyHoles THEN <<"many_holes">> ELSE <<>>
        f3 == IF g.total_cut_length > LongCutLength THEN <<"long_cutting_path">> ELSE <<>>
    IN  [g EXCEPT !.complexity_features = f1 \o f2 \o f3]

RECURSIVE ScoreFeatures(_, _)
ScoreFeatures(features, score) ==
    IF features = <<>> THEN MaxOf(0, score)
    ELSE ScoreFeatures(Tail(features),
                       IF Head(features) \in DOMAIN complexity_weights
                       THEN score - complexity_weights[Head(features)] * 5
                       ELSE score)

score_complexity(geometry) == ScoreFeatures(geometry.complexity_features, 1000)

score_tool_access(geometry) ==
    MaxOf(0, IF Below(geometry.min_radius, 10) THEN 1000 - 300
             ELSE IF Below(geometry.min_radius, 30) THEN 1000 - 150
             ELSE 1000)

score_tolerance_feasibility(geometry) == 850

score_surface_finish(geometry) == 900

score_material_removal(geometry, material) ==
    IF material \in {"titanium", "stainless_steel"} THEN 1000 - 200 ELSE 1000

(* overall_score is in thousandths of a point.                             *)
calculate_machinability_score(geometry, material) ==
    LET complexity_score == score_complexity(geometry)
        tool_access_score == score_tool_access(geometry)
        tolerance_score == score_tolerance_feasibility(geometry)
        surface_finish_score == score_surface_finish(geometry)
        material_removal_score == score_material_removal(geometry, material)
        overall_score == complexity_score * 25 + tool_access_score * 25 + tolerance_score * 20
                         + surface_finish_score * 15 + material_removal_score * 15
    IN  [overall_score |-> overall_score, complexity_score |-> complexity_score,
         tool_access_score |-> tool_access_score, tolerance_score |-> tolerance_score,
         surface_finish_score |-> surface_finish_score,
         material_removal_score |-> material_removal_score,
         grade |-> IF overall_score >= 90000 THEN "A"
                   ELSE IF overall_score >= 80000 THEN "B"
                   ELSE IF overall_score >= 70000 THEN "C"
                   ELSE IF overall_score >= 60000 THEN "D"
                   ELSE "F"]

(* analyze_machinability: the material, the geometry analysis and the      *)
(* score of the returned dict, or its error.  readfile raises on a file    *)
(* that is no drawing, _estimate_machining_time on a material that is not  *)
(* in material_params.                                                     *)
analyze_machinability(f, material) ==
    IF f.kind # "dxf" THEN [error |-> Some("DXFStructureError"), material |-> material,
                            geometry_analysis |-> None, machinability_score |-> None]
    ELSE IF material \notin DOMAIN material_params
    THEN [error |-> Some("KeyError"), material |-> material,
          geometry_analysis |-> None, machinability_score |-> None]
    ELSE LET geometry_analysis == analyze_geometry(f.msp)
         IN  [error |-> None, material |-> material,
              geometry_analysis |-> Some(geometry_analysis),
              machinability_score |->
                  Some(calculate_machinability_score(geometry_analysis, material))]

-----------------------------------------------------------------------------
Fresh ==
    /\ analyzer = DXFAnalyzerInit
    /\ call = [op |-> "init", file |-> None, ret |-> None, had_results |-> FALSE]
    /\ markdown = None
    /\ advanced = DXFAdvancedAnalyzerInit
    /\ adv_input = None
    /\ analysis_jobs = EmptyDict
    /\ tasks = EmptyDict
    /\ upload_dir = EmptyDict
    /\ request = None
    /\ response = None
    /\ comparison = DXFComparisonInit
    /\ cmp_calls = 0
    /\ cmp_report = None
    /\ fixer = DXFAutoFixInit
    /\ fix_call = [op |-> "init", before |-> None, advanced |-> None, ret |-> None]
    /\ analyzer_3d = DXF3DAnalyzerInit
    /\ call_3d = [calls |-> 0, fresh |-> FALSE, msp |-> <<>>, ret |-> None]
    /\ ai_integration = DXFAIIntegrationInit({}, {})
    /\ ai_call = NoAiCall
    /\ cnc_call = [op |-> "init", ret |-> None]

Init == Fresh /\ modules = AllModules

AnalyzeFrom(files) ==
    \E f \in files :
        LET r == analyze_dxf_file(analyzer, f)
        IN  /\ analyzer' = r.a
            /\ call' = [op |-> "analyze_dxf_file", file |-> Some(f), ret |-> Some(r.ret),
                        had_results |-> HasResults(analyzer)]
            /\ markdown' = None
            /\ UNCHANGED <<advVars, apiVars, cmpVars, toolVars>>

Analyze == AnalyzeFrom(Files)

AnalyzeReportFile == AnalyzeFrom(ReportFiles)

Reset ==
    /\ analyzer' = reset_analysis_data(analyzer)
    /\ call' = [op |-> "reset_analysis_data", file |-> None, ret |-> None,
                had_results |-> HasResults(analyzer)]
    /\ markdown' = None
    /\ UNCHANGED <<advVars, apiVars, cmpVars, toolVars>>

(* test_reset_analysis_data: dummy entries appended to the result lists.   *)
(* analysis_data holds the same list objects, so it sees the append.       *)
AppendDummy ==
    /\ \/ /\ Len(analyzer.layers) < Len(NamedLayers) + MaxDummies
          /\ analyzer' =
               [analyzer EXCEPT !.layers = Append(@, [name |-> "test"]),
                   !.analysis_data =
                       IF @ = None THEN None
                       ELSE Some([Val(@) EXCEPT !.layers = Append(@, [name |-> "test"])])]
       \/ /\ Len(analyzer.dimensions) < MaxReportEntities + MaxDummies
          /\ analyzer' =
               [analyzer EXCEPT !.dimensions = Append(@, [measurement |-> Some(100)]),
                   !.analysis_data =
                       IF @ = None THEN None
                       ELSE Some([Val(@) EXCEPT
                                    !.dimensions = Append(@, [measurement |-> Some(100)])])]
    /\ call' = [op |-> "append", file |-> None, ret |-> None,
                had_results |-> HasResults(analyzer)]
    /\ markdown' = None
    /\ UNCHANGED <<advVars, apiVars, cmpVars, toolVars>>

(* test_markdown_generation: file_info and summary_info assigned directly. *)
AssignSummary ==
    /\ analyzer' =
         [analyzer EXCEPT
            !.file_info = [filename |-> "test.dxf", size |-> 1024,
                           modified_time |-> "2025-01-01 12:00:00"],
            !.summary_info = [total_entities |-> 100, layer_count |-> 5,
                              dimension_count |-> 10, circle_count |-> 20,
                              arc_count |-> 5, text_count |-> 15,
                              entity_breakdown |-> <<[k |-> "LINE", v |-> 50],
                                                     [k |-> "CIRCLE", v |-> 20]>>]]
    /\ call' = [op |-> "assign", file |-> None, ret |-> None,
                had_results |-> HasResults(analyzer)]
    /\ markdown' = None
    /\ UNCHANGED <<advVars, apiVars, cmpVars, toolVars>>

BuildMarkdown ==
    /\ markdown = None
    /\ markdown' = Some(build_markdown_content(analyzer))
    /\ call' = [op |-> "_build_markdown_content", file |-> None, ret |-> None,
                had_results |-> HasResults(analyzer)]
    /\ UNCHANGED <<analyzer, advVars, apiVars, cmpVars, toolVars>>

(* generate_ai_context on one DXFAdvancedAnalyzer: analyze_drawing_quality, *)
(* calculate_drawing_complexity and detect_anomalies on the same data.     *)
GenerateAiContext ==
    \E data \in QualityInputs :
        /\ advanced' = [advanced EXCEPT
               !.quality_metrics = analyze_drawing_quality(data),
               !.complexity_metrics = calculate_drawing_complexity(data),
               !.anomalies = detect_anomalies(data)]
        /\ adv_input' = Some(data)
        /\ UNCHANGED <<analyzerVars, apiVars, cmpVars, toolVars>>

QualityNext == GenerateAiContext

QualitySpec == Init /\ [][QualityNext]_vars

Next == Analyze \/ Reset

Spec == Init /\ [][Next]_vars

ReportNext == AnalyzeReportFile \/ Reset \/ AppendDummy \/ AssignSummary \/ BuildMarkdown

ReportSpec == Init /\ [][ReportNext]_vars

-----------------------------------------------------------------------------
(* dxf_cloud_api: the request handlers and the steps of                    *)
(* run_analysis_in_background, one step per stretch between two awaits.    *)

AnalyzeRequest(token, filename, include_advanced, include_3d) ==
    [op |-> "analyze", token |-> token, filename |-> filename, job_id |-> None,
     include_advanced |-> include_advanced, include_3d |-> include_3d]

StatusRequest(token, job_id) ==
    [op |-> "status", token |-> token, filename |-> <<>>, job_id |-> Some(job_id),
     include_advanced |-> FALSE, include_3d |-> FALSE]

(* Lines 306-322: the job is entered as pending, the worker task is        *)
(* created and the 202 response is built.                                  *)
register_job(jobs, tsk, dir, job_id, filename, username, include_advanced, include_3d) ==
    [jobs |-> DSet(jobs, job_id, PendingJob(filename, username)),
     tasks |-> DSet(tsk, job_id,
                    [pc |-> "created", file_path |-> file_location(job_id, filename),
                     include_advanced |-> include_advanced, include_3d |-> include_3d,
                     basic_data |-> None, result_data |-> None]),
     dir |-> dir,
     response |-> [status_code |-> 202, detail |-> "",
                   body |-> Some([job_id |-> job_id, status |-> "pending",
                                  result_url |-> <<"/api/analyze/status/", job_id>>]),
                   table_read |-> FALSE]]

request_dxf_analysis(jobs, tsk, dir, mods, auth, filename, upload, include_advanced, include_3d) ==
    IF auth.error # None
    THEN [jobs |-> jobs, tasks |-> tsk, dir |-> dir, response |-> Val(auth.error)]
    ELSE IF ~mods.analyzer
    THEN [jobs |-> jobs, tasks |-> tsk, dir |-> dir,
          response |-> HTTPException(503, "service unavailable", FALSE)]
    ELSE IF filename = <<>> \/ ~endswith(lower(filename), DotDxf)
    THEN [jobs |-> jobs, tasks |-> tsk, dir |-> dir,
          response |-> HTTPException(400, "only .dxf files", FALSE)]
    ELSE
      LET job_id == NewJobId(jobs)
          path == file_location(job_id, filename)
          opened == async_with_open(dir, path)
      IN  IF opened.raised # ""
          THEN [jobs |-> jobs, tasks |-> tsk, dir |-> DDel(opened.dir, path),
                response |-> HTTPException(500, opened.raised, FALSE)]
          ELSE register_job(jobs, tsk, DSet(opened.dir, path, upload), job_id, filename,
                            Val(auth.username), include_advanced, include_3d)

RequestAnalysis ==
    \E token \in Tokens, filename \in Filenames, upload \in Uploads,
       include_advanced \in BOOLEAN, include_3d \in BOOLEAN :
      \E auth \in get_current_user(token) :
        LET r == request_dxf_analysis(analysis_jobs, tasks, upload_dir, modules, auth,
                                      filename, upload, include_advanced, include_3d)
        IN  /\ analysis_jobs' = r.jobs
            /\ tasks' = r.tasks
            /\ upload_dir' = r.dir
            /\ request' = Some(AnalyzeRequest(token, filename, include_advanced, include_3d))
            /\ response' = Some(r.response)
            /\ UNCHANGED <<modules, analyzerVars, advVars, cmpVars, toolVars>>

(* The job table as request_dxf_analysis fills it once the upload is on    *)
(* disk: the state run_analysis_in_background is written for.              *)
RegisterJob ==
    \E username \in Users, upload \in Uploads,
       include_advanced \in BOOLEAN, include_3d \in BOOLEAN :
        LET filename == <<"a", ".", "d", "x", "f">>
            job_id == NewJobId(analysis_jobs)
            r == register_job(analysis_jobs, tasks,
                              DSet(upload_dir, file_location(job_id, filename), upload),
                              job_id, filename, username, include_advanced, include_3d)
        IN  /\ modules.analyzer
            /\ Cardinality(DOMAIN analysis_jobs) < MaxJobs
            /\ analysis_jobs' = r.jobs
            /\ tasks' = r.tasks
            /\ upload_dir' = r.dir
            /\ request' = Some(AnalyzeRequest([kind |-> "valid", sub |-> Some(username)],
                                              filename, include_advanced, include_3d))
            /\ response' = Some(r.response)
            /\ UNCHANGED <<modules, analyzerVars, advVars, cmpVars, toolVars>>

GetStatus ==
    \E token \in Tokens, job_id \in JobIds \cup {"unknown"} :
      \E auth \in get_current_user(token) :
        /\ request' = Some(StatusRequest(token, job_id))
        /\ response' = Some(IF auth.error # None THEN Val(auth.error)
                            ELSE get_analysis_job_status(analysis_jobs, job_id,
                                                         Val(auth.username)))
        /\ UNCHANGED <<analysis_jobs, tasks, upload_dir, modules, analyzerVars, advVars, cmpVars, toolVars>>

(* A worker step answers no request.                                       *)
WorkerStep == request' = None /\ response' = None /\ UNCHANGED <<modules, analyzerVars, advVars, cmpVars, toolVars>>

(* The coroutine ends without writing the job's entry.                     *)
FinishSilently(j, job) ==
    /\ UNCHANGED analysis_jobs
    /\ upload_dir' = DDel(upload_dir, tasks[j].file_path)
    /\ tasks' = [tasks EXCEPT ![j].pc = "done"]

(* The coroutine ends with this entry for the job; finally removes the     *)
(* uploaded file.                                                          *)
Finish(j, job) ==
    /\ analysis_jobs' = [analysis_jobs EXCEPT ![j] = job]
    /\ upload_dir' = DDel(upload_dir, tasks[j].file_path)
    /\ tasks' = [tasks EXCEPT ![j].pc = "done"]

Proceed(j, pc, basic_data, result_data) ==
    /\ tasks' = [tasks EXCEPT ![j].pc = pc, ![j].basic_data = Some(basic_data),
                              ![j].result_data = Some(result_data)]
    /\ UNCHANGED <<analysis_jobs, upload_dir>>

(* Lines 233-260 up to the next await.                                     *)
AfterAdvanced(j, basic_data, result_data) ==
    IF tasks[j].include_3d /\ modules.three_d
    THEN Proceed(j, "reading3d", basic_data, result_data)
    ELSE Finish(j, completed(analysis_jobs[j], result_data))

(* Lines 218-224 up to the next await.                                     *)
AfterBasic(j, basic_data, result_data) ==
    IF tasks[j].include_advanced /\ modules.advanced
    THEN Proceed(j, "advanced", basic_data, result_data)
    ELSE AfterAdvanced(j, basic_data, result_data)

(* The file at the task's path, as the analyzers find it.                  *)
FileAt(path) ==
    IF path \in DOMAIN upload_dir
    THEN [filename |-> path, kind |-> upload_dir[path].kind, doc |-> upload_dir[path].doc]
    ELSE [filename |-> path, kind |-> "missing", doc |-> None]

StartAnalysis ==
    \E j \in DOMAIN tasks :
        /\ tasks[j].pc = "created"
        /\ analysis_jobs' = [analysis_jobs EXCEPT ![j].status = "processing"]
        /\ tasks' = [tasks EXCEPT ![j].pc = "analyzing"]
        /\ UNCHANGED upload_dir
        /\ WorkerStep

(* The files a job's path can hold, and analyze_dxf_file of a new          *)
(* DXFAnalyzer on each of them.                                            *)
JobFiles ==
    {[filename |-> file_location(j, <<"a", ".", "d", "x", "f">>), kind |-> u.kind, doc |-> u.doc] :
        j \in JobIds, u \in Uploads \cup {[kind |-> "missing", doc |-> None]}}

BasicAnalyses == [f \in JobFiles |-> analyze_dxf_file(DXFAnalyzerInit, f)]

BasicAnalysisDone ==
    \E j \in DOMAIN tasks :
        /\ tasks[j].pc = "analyzing"
        /\ LET r == BasicAnalyses[FileAt(tasks[j].file_path)]
           IN  IF ~r.ret \/ r.a.analysis_data = None
               THEN Finish(j, failed(analysis_jobs[j], "basic analysis failed"))
               ELSE AfterBasic(j, Val(r.a.analysis_data),
                               AnalysisResultData(Val(r.a.analysis_data), tasks[j].file_path))
        /\ WorkerStep

(* generate_ai_context and the AdvancedSummary built from it, for the      *)
(* analysis data of each file a job can be given.                          *)
AdvancedSummaries ==
    [d \in {Val(BasicAnalyses[f].a.analysis_data) : f \in {g \in JobFiles : BasicAnalyses[g].ret}} |->
        AdvancedSummary(generate_ai_context(d))]

AdvancedDone ==
    \E j \in DOMAIN tasks :
        /\ tasks[j].pc = "advanced"
        /\ LET basic_data == Val(tasks[j].basic_data)
               summary == AdvancedSummaries[basic_data]
           IN  IF summary.raised # ""
               THEN Finish(j, failed(analysis_jobs[j], summary.raised))
               ELSE AfterAdvanced(j, basic_data,
                                  [Val(tasks[j].result_data) EXCEPT
                                      !.advanced_summary = summary.value])
        /\ WorkerStep

ReadDone ==
    \E j \in DOMAIN tasks :
        /\ tasks[j].pc = "reading3d"
        /\ IF FileAt(tasks[j].file_path).kind = "dxf"
           THEN Proceed(j, "analyzing3d", Val(tasks[j].basic_data), Val(tasks[j].result_data))
           ELSE Finish(j, failed(analysis_jobs[j], "readfile failed"))
        /\ WorkerStep

(* analyze_3d_entities of a new DXF3DAnalyzer on the model space of each   *)
(* drawing a job can be given.                                             *)
ThreeDResults ==
    [doc \in {Val(u.doc) : u \in {v \in Uploads : v.kind = "dxf"}} |->
        analyze_3d_entities(DXF3DAnalyzerInit, [i \in DOMAIN doc.entities |-> Planar(doc.entities[i])]).ret]

ThreeDDone ==
    \E j \in DOMAIN tasks :
        /\ tasks[j].pc = "analyzing3d"
        /\ LET doc == Val(FileAt(tasks[j].file_path).doc)
               three_d_results == ThreeDResults[doc]
           IN  Finish(j, completed(analysis_jobs[j],
                                   [Val(tasks[j].result_data) EXCEPT
                                       !.three_d_summary = Some(ThreeDSummary(three_d_results))]))
        /\ WorkerStep

ApiInit == Fresh /\ modules \in Modules

ApiNext == RequestAnalysis \/ GetStatus

ApiSpec == ApiInit /\ [][ApiNext]_vars

JobNext ==
    \/ RegisterJob \/ StartAnalysis \/ BasicAnalysisDone \/ AdvancedDone
    \/ ReadDone \/ ThreeDDone \/ GetStatus

JobSpec == Init /\ [][JobNext]_vars

(* The worker alone, under any set of available modules: jobs are          *)
(* registered and analysed, no status is requested (the status handler     *)
(* only reads the table).  The event loop runs every task it was given     *)
(* and the worker threads return: each stretch of                          *)
(* run_analysis_in_background that can run does run.                       *)
WorkNext ==
    \/ RegisterJob \/ StartAnalysis \/ BasicAnalysisDone \/ AdvancedDone
    \/ ReadDone \/ ThreeDDone

FairJobSpec ==
    /\ ApiInit /\ [][WorkNext]_vars
    /\ WF_vars(StartAnalysis) /\ WF_vars(BasicAnalysisDone) /\ WF_vars(AdvancedDone)
    /\ WF_vars(ReadDone) /\ WF_vars(ThreeDDone)

-----------------------------------------------------------------------------
(* DXFComparison: comparisons and reports on one instance.                 *)

Compare ==
    \E d1 \in CompInputs, d2 \in CompInputs :
      LET names1 == LayerNames(d1.layers)
          names2 == LayerNames(d2.layers)
      IN  \E added_order \in Orderings(names2 \ names1),
             removed_order \in Orderings(names1 \ names2),
             common_order \in Orderings(names1 \cap names2),
             type_order \in Orderings(AKeys(d1.entity_breakdown) \cup AKeys(d2.entity_breakdown)) :
             /\ cmp_calls < MaxComparisons
             /\ comparison' = compare_dxf_files(comparison, d1, d2, added_order,
                                                removed_order, common_order, type_order)
             /\ cmp_calls' = cmp_calls + 1
             /\ cmp_report' = None
             /\ UNCHANGED <<analyzerVars, advVars, apiVars, toolVars>>

GenerateReport ==
    /\ cmp_report = None
    /\ cmp_report' = Some(generate_comparison_report(comparison))
    /\ UNCHANGED <<comparison, cmp_calls, analyzerVars, advVars, apiVars, toolVars>>

CompNext == Compare \/ GenerateReport

CompSpec == Init /\ [][CompNext]_vars

-----------------------------------------------------------------------------
(* DXFAutoFix: load a file, back it up, fix it.                            *)

LoadFile ==
    \E f \in FixFiles :
        LET r == load_file(fixer, f)
        IN  /\ fixer' = r.fx
            /\ fix_call' = [op |-> "load_file", before |-> None, advanced |-> None,
                            ret |-> Some(r.ret)]
            /\ UNCHANGED <<analyzerVars, advVars, apiVars, cmpVars, threeDVars, aiVars, cncVars>>

CreateBackup ==
    \E f \in {g \in FixFiles : g.kind # "dxf"} \cup {CHOOSE g \in FixFiles : g.kind = "dxf"} :
        LET r == create_backup(fixer, f)
        IN  /\ fixer' = r.fx
            /\ fix_call' = [op |-> "create_backup", before |-> None, advanced |-> None,
                            ret |-> Some(r.ret)]
            /\ UNCHANGED <<analyzerVars, advVars, apiVars, cmpVars, threeDVars, aiVars, cncVars>>

AutoFixAll ==
    /\ Len(fixer.fixes_applied) < MaxFixesApplied
    /\ \E advanced_analysis \in AdvancedAnalyses :
        LET r == auto_fix_all(fixer, None, advanced_analysis)
        IN  /\ fixer' = r.fx
            /\ fix_call' = [op |-> "auto_fix_all", before |-> fixer.doc,
                            advanced |-> advanced_analysis, ret |-> Some(r.ret)]
            /\ UNCHANGED <<analyzerVars, advVars, apiVars, cmpVars, threeDVars, aiVars, cncVars>>

FixNext == LoadFile \/ CreateBackup \/ AutoFixAll

FixSpec == Init /\ [][FixNext]_vars

-----------------------------------------------------------------------------
(* DXF3DAnalyzer: analyze a model space with a new analyzer or with the    *)
(* one that ran the last analysis.                                         *)

Analyze3D ==
    /\ call_3d.calls < MaxAnalyses3D
    /\ \E msp \in ModelSpaces3D(Max3DEntities), fresh \in BOOLEAN :
        LET r == analyze_3d_entities(IF fresh THEN DXF3DAnalyzerInit ELSE analyzer_3d, msp)
        IN  /\ analyzer_3d' = r.a
            /\ call_3d' = [calls |-> call_3d.calls + 1,
                           fresh |-> fresh \/ analyzer_3d = DXF3DAnalyzerInit,
                           msp |-> msp, ret |-> Some(r.ret)]
            /\ UNCHANGED <<analyzerVars, advVars, apiVars, cmpVars, fixVars, aiVars, cncVars>>

ThreeDNext == Analyze3D

ThreeDSpec == Init /\ [][ThreeDNext]_vars

-----------------------------------------------------------------------------
(* DXFAIIntegration: construct it from the environment, install the        *)
(* tests' mock clients, ask one provider for an analysis.                  *)

ConstructAi ==
    \E keys \in SUBSET Providers, available \in SUBSET {"claude", "gemini"} :
        /\ ai_integration' = DXFAIIntegrationInit(keys, available)
        /\ ai_call' = NoAiCall
        /\ UNCHANGED <<analyzerVars, advVars, apiVars, cmpVars, fixVars, threeDVars, cncVars>>

(* TestDXFAIIntegration.asyncSetUp.                                        *)
SetUpMocks ==
    /\ ai_integration' = [ai_integration EXCEPT !.openai_api_key = Some("key"), !.claude_api_key = Some("key"),
                        !.gemini_api_key = Some("key"),
                        !.claude_client = IF "claude" \in ai_integration.available THEN Some("async") ELSE None,
                        !.gemini_model = IF "gemini" \in ai_integration.available THEN Some("async") ELSE None]
    /\ ai_call' = NoAiCall
    /\ UNCHANGED <<analyzerVars, advVars, apiVars, cmpVars, fixVars, threeDVars, cncVars>>

AnalyzeWithProvider ==
    \E provider \in Providers, d \in AiAnalysisData, t \in PromptTypes, reply \in ProviderReplies :
        LET r == analyze_with(ai_integration, provider, d, t, reply)
        IN  /\ ai_call' = [op |-> "analyze_with", provider |-> Some(provider),
                           prompt_type |-> Some(t),
                           configured |-> is_api_key_configured(ai_integration, provider),
                           reply |-> Some(reply), invocations |-> r.invocations,
                           ret |-> Some(r.ret)]
            /\ UNCHANGED <<ai_integration, analyzerVars, advVars, apiVars, cmpVars, fixVars, threeDVars, cncVars>>

AiNext == ConstructAi \/ SetUpMocks \/ AnalyzeWithProvider

AiSpec == Init /\ [][AiNext]_vars

-----------------------------------------------------------------------------
(* DXFCNCAnalyzer: one analysis per step.                                  *)

(* What analyze_machinability returns for each file and material.          *)
MachinabilityAnalyses ==
    [f \in CncFiles, material \in Materials |-> analyze_machinability(f, material)]

AnalyzeMachinability ==
    \E f \in CncFiles, material \in Materials :
        /\ cnc_call' = [op |-> "analyze_machinability",
                        ret |-> Some(MachinabilityAnalyses[f, material])]
        /\ UNCHANGED <<analyzerVars, advVars, apiVars, cmpVars, fixVars, threeDVars, aiVars>>

CncNext == AnalyzeMachinability

CncSpec == Init /\ [][CncNext]_vars

-----------------------------------------------------------------------------
(* Claims about DXFAnalyzer.                                               *)

Analysed == call.op = "analyze_dxf_file" /\ call.ret = Some(TRUE)

AnalysedEntities == Val(Val(call.file).doc).entities

CountOfTypes(types) == Cardinality({i \in DOMAIN AnalysedEntities : AnalysedEntities[i].type \in types})

KindCounts(summary, breakdown, key, list, types) ==
    /\ summary[key] = Len(list)
    /\ summary[key] = SumSeq([i \in 1..Len(types) |-> AGet(breakdown, types[i], 0)])
    /\ summary[key] = CountOfTypes(Range(types))

(* C1: after analyze_dxf_file returns True, total_entities is the number   *)
(* of model-space entities and the sum of the entity_breakdown counts, and *)
(* every per-kind count equals the length of its list and the breakdown    *)
(* entries of the DXF types collected into that list.                      *)
C1_CountsAgree ==
    Analysed =>
        LET s == analyzer.summary_info
            b == s.entity_breakdown
        IN  /\ s.total_entities = Len(AnalysedEntities)
            /\ s.total_entities = SumSeq(AValues(b))
            /\ b = analyzer.entity_breakdown
            /\ \A t \in AKeys(b) : AGet(b, t, 0) = CountOfTypes({t})
            /\ KindCounts(s, b, "line_count", analyzer.lines, <<"LINE">>)
            /\ KindCounts(s, b, "circle_count", analyzer.circles, <<"CIRCLE">>)
            /\ KindCounts(s, b, "arc_count", analyzer.arcs, <<"ARC">>)
            /\ KindCounts(s, b, "text_count", analyzer.texts, <<"TEXT", "MTEXT">>)
            /\ KindCounts(s, b, "dimension_count", analyzer.dimensions, <<"DIMENSION">>)
            /\ KindCounts(s, b, "polyline_count", analyzer.polylines, <<"LWPOLYLINE", "POLYLINE">>)
            /\ KindCounts(s, b, "block_count", analyzer.blocks, <<"INSERT">>)
            /\ KindCounts(s, b, "hatch_count", analyzer.hatches, <<"HATCH">>)

C1_Witness ==
    /\ Analysed
    /\ analyzer.summary_info.total_entities = 2
    /\ analyzer.summary_info.text_count = 2
    /\ Cardinality(AKeys(analyzer.entity_breakdown)) = 2

(* The bounding box of the geometry of a list of entities.                 *)
GeometryPoints(ents) == UNION {ents[i].extent : i \in DOMAIN ents}

Min(S) == CHOOSE x \in S : \A y \in S : x <= y

Max(S) == CHOOSE x \in S : \A y \in S : x >= y

BoundingBox(pts) ==
    [min_x |-> Some(Min({p[1] : p \in pts})), min_y |-> Some(Min({p[2] : p \in pts})),
     max_x |-> Some(Max({p[1] : p \in pts})), max_y |-> Some(Max({p[2] : p \in pts}))]

(* C2: after a successful analysis, drawing_size.bounds is the bounding    *)
(* box of the analysed entities' geometry, width and height are its sides  *)
(* and area is their product.                                              *)
C2_BoundsAreBoundingBox ==
    (Analysed /\ GeometryPoints(AnalysedEntities) # {}) =>
        LET size == analyzer.summary_info.drawing_size
            box == BoundingBox(GeometryPoints(AnalysedEntities))
        IN  /\ size # None
            /\ Val(size).bounds = box
            /\ Val(size).width = Val(box.max_x) - Val(box.min_x)
            /\ Val(size).height = Val(box.max_y) - Val(box.min_y)
            /\ Val(size).area = Val(size).width * Val(size).height

(* C3: reset_analysis_data leaves every result field as in a freshly       *)
(* constructed analyzer, whatever analyses and direct additions preceded.  *)
C3_ResetIsFresh ==
    call.op = "reset_analysis_data" => analyzer = DXFAnalyzerInit

C3_Witness ==
    /\ call.op = "reset_analysis_data"
    /\ call.had_results
    /\ analyzer = DXFAnalyzerInit

(* C4: _build_markdown_content emits a table row with the type and count   *)
(* of every entity type in summary_info['entity_breakdown'].               *)
C4_RowPerSummaryType ==
    markdown # None =>
        LET md == Val(markdown)
            b == DGet(analyzer.summary_info, "entity_breakdown", <<>>)
        IN  md.raised = "" =>
                \A i \in DOMAIN b :
                    \E j \in DOMAIN md.entity_rows :
                        md.entity_rows[j].type = b[i].k /\ md.entity_rows[j].count = b[i].v

(* The band of a reported score (in tenths).                               *)
ScoreBand(score) ==
    CASE score >= 900 -> "A"
      [] score >= 800 /\ score < 900 -> "B"
      [] score >= 700 /\ score < 800 -> "C"
      [] score >= 600 /\ score < 700 -> "D"
      [] OTHER -> "F"

(* C9: analyze_drawing_quality reports an overall_score within 0..100 and  *)
(* the grade of the band that this reported score falls in.                *)
C9_GradeMatchesScore ==
    advanced.quality_metrics # EmptyDict =>
        /\ advanced.quality_metrics.overall_score \in 0..1000
        /\ advanced.quality_metrics.grade = ScoreBand(advanced.quality_metrics.overall_score)

C9_Witness ==
    /\ advanced.quality_metrics # EmptyDict
    /\ advanced.quality_metrics.overall_score < 800
    /\ advanced.quality_metrics.grade = "C"
    /\ advanced.quality_metrics.dimension_score < 100

-----------------------------------------------------------------------------
(* C5: every entry of the job table whose status is 'completed' carries    *)
(* analysis_data and every entry whose status is 'failed' carries an       *)
(* error_message, and so does every answer of a status query.              *)
FinishedCarriesResult(entry) ==
    /\ entry.status = "completed" => entry.analysis_data # None
    /\ entry.status = "failed" => entry.error_message # None

C5_FinishedJobsCarryResult ==
    /\ \A j \in DOMAIN analysis_jobs : FinishedCarriesResult(analysis_jobs[j])
    /\ (request # None /\ Val(request).op = "status" /\ Val(response).body # None)
          => FinishedCarriesResult(Val(Val(response).body))

C5_Witness ==
    /\ request # None /\ Val(request).op = "status"
    /\ Val(response).status_code = 200
    /\ Val(Val(response).body).status = "failed"
    /\ Val(Val(response).body).error_message # None
    /\ \E j \in DOMAIN analysis_jobs : analysis_jobs[j].status = "failed"

(* C6: an authenticated POST /api/analyze with a '.dxf' file name, made    *)
(* while the analyzer module is available, is answered with a job id and   *)
(* a status URL, the job is registered as pending and its worker exists.   *)
C6_RequestAccepted ==
    (/\ request # None /\ Val(request).op = "analyze"
     /\ Val(request).token.kind = "valid"
     /\ endswith(Val(request).filename, DotDxf)
     /\ modules.analyzer)
    => /\ Val(response).status_code = 202
       /\ Val(response).body # None
       /\ LET job_id == Val(Val(response).body).job_id
          IN  /\ job_id \in DOMAIN analysis_jobs
              /\ analysis_jobs[job_id].status = "pending"
              /\ job_id \in DOMAIN tasks

(* C7: a status query is answered with the job only for the job's owner;   *)
(* another authenticated user gets 403, an unknown id 404, and a request   *)
(* without a valid token is refused before the job table is read.          *)
C7_OnlyOwnerReadsJob ==
    (request # None /\ Val(request).op = "status") =>
        LET token == Val(request).token
            job_id == Val(Val(request).job_id)
            resp == Val(response)
        IN  /\ token.kind # "valid" =>
                 resp.status_code \in {401, 403} /\ ~resp.table_read /\ resp.body = None
            /\ (token.kind = "valid" /\ job_id \notin DOMAIN analysis_jobs) =>
                 resp.status_code = 404 /\ resp.body = None
            /\ (token.kind = "valid" /\ job_id \in DOMAIN analysis_jobs) =>
                 IF analysis_jobs[job_id].user = Val(token.sub)
                 THEN /\ resp.status_code = 200
                      /\ resp.body = Some([job_id |-> job_id,
                                           status |-> analysis_jobs[job_id].status,
                                           analysis_data |-> analysis_jobs[job_id].analysis_data,
                                           error_message |-> analysis_jobs[job_id].error_message])
                 ELSE resp.status_code = 403 /\ resp.body = None

C7_Witness ==
    /\ request # None /\ Val(request).op = "status"
    /\ Val(request).token.kind = "valid"
    /\ Val(Val(request).job_id) \in DOMAIN analysis_jobs
    /\ analysis_jobs[Val(Val(request).job_id)].user # Val(Val(request).token.sub)
    /\ analysis_jobs[Val(Val(request).job_id)].status = "completed"
    /\ Val(response).status_code = 403
    /\ Val(response).table_read

(* C8: a job requested with include_advanced on a drawing that analyses    *)
(* successfully completes, and advanced_summary.issues_detected is the     *)
(* list of the texts of the first five (or fewer) anomalies.               *)
C8_IssuesAreAnomalyTexts ==
    \A j \in DOMAIN tasks :
        (/\ tasks[j].pc = "done"
         /\ tasks[j].include_advanced /\ modules.advanced
         /\ tasks[j].basic_data # None)
        => LET anomalies == Take(detect_anomalies(Val(tasks[j].basic_data)), 5)
           IN  /\ analysis_jobs[j].status = "completed"
               /\ Val(Val(analysis_jobs[j].analysis_data).advanced_summary).issues_detected
                    = [i \in DOMAIN anomalies |-> Some(anomalies[i].message)]

-----------------------------------------------------------------------------
(* C10: every layer that exists in the second drawing (in its layer table  *)
(* or as the layer of one of its entities) but not in the first is among   *)
(* the added layers of the comparison, and the report lists it as added.   *)
LayersOf(data) == LayerNames(data.layers) \cup DOMAIN data.entities_by_layer

C10_AddedLayersListed ==
    comparison.file2_data # None =>
        \A name \in LayersOf(Val(comparison.file2_data))
                       \ LayersOf(Val(comparison.file1_data)) :
            /\ name \in LayerNames(DGet(comparison.differences.added, "layers", <<>>))
            /\ cmp_report # None => name \in LayerNames(Val(cmp_report).added_layers)

(* C11: when the entities of a type differ between the two compared        *)
(* drawings while their number is the same (a CIRCLE with another radius), *)
(* the comparison report mentions that entity type.                        *)
TypeEntities(data, type) ==
    CASE type = "LINE" -> data.lines
      [] type = "CIRCLE" -> data.circles
      [] type = "ARC" -> data.arcs
      [] type = "DIMENSION" -> data.dimensions
      [] OTHER -> <<>>

ModifiedTypes(d1, d2) ==
    {t \in {"LINE", "CIRCLE", "ARC", "DIMENSION"} :
        /\ Len(TypeEntities(d1, t)) = Len(TypeEntities(d2, t))
        /\ TypeEntities(d1, t) # TypeEntities(d2, t)}

ReportMentionsType(report, type) ==
    \/ \E i \in DOMAIN report.entity_rows : report.entity_rows[i].type = type
    \/ \E i \in DOMAIN report.major_changes : report.major_changes[i][1] = type

C11_ModifiedTypeReported ==
    (cmp_report # None /\ comparison.file2_data # None) =>
        \A t \in ModifiedTypes(Val(comparison.file1_data), Val(comparison.file2_data)) :
            ReportMentionsType(Val(cmp_report), t)

-----------------------------------------------------------------------------
(* Claims about DXFAutoFix.                                                *)

HasExactDuplicates(doc) ==
    \E i, j \in DOMAIN doc.entities : i < j /\ doc.entities[i] = doc.entities[j]

TopLevelFixesApplied(ret) == IF "fixes_applied" \in DOMAIN ret THEN ret.fixes_applied ELSE <<>>

(* C12: when auto_fix_all runs on a loaded drawing that holds two equal    *)
(* entities, the dict it returns has a top-level 'fixes_applied' list      *)
(* that contains 'duplicate_entities_removed'.                             *)
C12_DuplicateRemovalReported ==
    (fix_call.op = "auto_fix_all" /\ fix_call.before # None /\ HasExactDuplicates(Val(fix_call.before))) =>
        Message("duplicate_entities_removed", None) \in Range(TopLevelFixesApplied(Val(fix_call.ret)))

-----------------------------------------------------------------------------
(* Claims about DXF3DAnalyzer.                                             *)

VertexEntities(msp) == SelectSeq(msp, LAMBDA e : e.type \in {"3DFACE", "MESH"})

RECURSIVE Flatten(_)
Flatten(ss) == IF ss = <<>> THEN <<>> ELSE Head(ss) \o Flatten(Tail(ss))

VertexZs(msp) == Range(Flatten([i \in DOMAIN msp |-> ZsOf(msp[i].vertices)]))

(* C13: for a new analyzer and a model space of 3DFACE and MESH entities,  *)
(* the z_range reported is the smallest and the largest Z coordinate over  *)
(* all corners and vertices.                                               *)
C13_ZRangeSpansVertices ==
    (call_3d.calls > 0 /\ call_3d.fresh /\ call_3d.msp # <<>> /\ VertexEntities(call_3d.msp) = call_3d.msp) =>
        LET zs == VertexZs(call_3d.msp)
            z_range == Val(call_3d.ret).z_range
        IN  /\ z_range.min = Some(CHOOSE z \in zs : \A w \in zs : z <= w)
            /\ z_range.max = Some(CHOOSE z \in zs : \A w \in zs : z >= w)

-----------------------------------------------------------------------------
(* Claims about DXFAIIntegration.                                          *)

(* C14: when the provider of an analyze_with_<provider> call is            *)
(* configured and answers with a text, the provider is called exactly      *)
(* once and the result has no 'error' key and carries exactly that text    *)
(* as its 'analysis'.                                                      *)
C14_ProviderTextPassedThrough ==
    (ai_call.op = "analyze_with" /\ ai_call.configured /\ Val(ai_call.reply).kind = "text") =>
        /\ ai_call.invocations = 1
        /\ "error" \notin DOMAIN Val(ai_call.ret)
        /\ Val(ai_call.ret).analysis = Val(ai_call.reply).text

-----------------------------------------------------------------------------
(* Claims about the life of a job.                                         *)

TerminalStatuses == {"completed", "failed"}

StatusStep(old, new) ==
    \/ old = new
    \/ old = "pending" /\ new = "processing"
    \/ old = "processing" /\ new \in TerminalStatuses

(* C15: in every step a job keeps its status or moves from pending to      *)
(* processing or from processing to completed or failed; a job enters the  *)
(* table as pending and never leaves it, so a completed or failed job      *)
(* keeps its status for ever.                                              *)
C15_StatusOnlyAdvances ==
    [][/\ \A j \in DOMAIN analysis_jobs :
            /\ j \in DOMAIN analysis_jobs'
            /\ StatusStep(analysis_jobs[j].status, analysis_jobs'[j].status)
       /\ \A j \in DOMAIN analysis_jobs' \ DOMAIN analysis_jobs :
            analysis_jobs'[j].status = "pending"]_vars

C15_Witness ==
    \E j \in DOMAIN analysis_jobs :
        /\ analysis_jobs[j].status \in TerminalStatuses
        /\ tasks[j].pc = "done"
        /\ request # None /\ Val(request).op = "status"
        /\ Val(Val(request).job_id) = j

(* C16: every job in the table eventually has the status completed or      *)
(* failed, whichever way its analysis steps end.                           *)
C16_JobsEventuallyFinish ==
    \A j \in JobIds :
        (j \in DOMAIN analysis_jobs) ~>
            (j \in DOMAIN analysis_jobs /\ analysis_jobs[j].status \in TerminalStatuses)

C16_Witness ==
    \E j \in DOMAIN analysis_jobs :
        /\ analysis_jobs[j].status = "failed"
        /\ analysis_jobs[j].error_message \notin {None, Some("basic analysis failed")}
        /\ tasks[j].pc = "done"

-----------------------------------------------------------------------------
(* Claims about the uploaded files.                                        *)

(* Every file of the upload directory is the file of a job that has not    *)
(* finished yet.                                                           *)
TempFilesLive(jobs, tsk, dir) ==
    \A p \in DOMAIN dir :
        \E j \in DOMAIN jobs :
            /\ tsk[j].file_path = p
            /\ jobs[j].status \notin TerminalStatuses

(* What POST /api/analyze makes of the present job table and directory.    *)
UploadOutcomes ==
    { request_dxf_analysis(analysis_jobs, tasks, upload_dir, modules, auth, filename,
                           upload, include_advanced, include_3d) :
        auth \in UNION {get_current_user(token) : token \in Tokens},
        filename \in Filenames, upload \in Uploads,
        include_advanced \in BOOLEAN, include_3d \in BOOLEAN }

-----------------------------------------------------------------------------
(* Claims about a failed analysis.                                         *)

(* C18: a call of analyze_dxf_file that returns False leaves file_info,    *)
(* summary_info, the entity lists, drawing_bounds and analysis_data as     *)
(* they were before the call.                                              *)
C18_FailedAnalysisKeepsResults ==
    [][(call'.op = "analyze_dxf_file" /\ call'.ret = Some(FALSE)) => analyzer' = analyzer]_vars

-----------------------------------------------------------------------------
(* Claims about repeated comparisons.                                      *)

(* What a new DXFComparison returns for d1 and d2, for every order in      *)
(* which the sets of names can be walked.                                  *)
FreshComparisons(d1, d2) ==
    LET names1 == LayerNames(d1.layers)
        names2 == LayerNames(d2.layers)
    IN  { compare_dxf_files(DXFComparisonInit, d1, d2, added_order, removed_order,
                            common_order, type_order).differences :
            added_order \in Orderings(names2 \ names1),
            removed_order \in Orderings(names1 \ names2),
            common_order \in Orderings(names1 \cap names2),
            type_order \in Orderings(AKeys(d1.entity_breakdown) \cup AKeys(d2.entity_breakdown)) }

(* The entries of a defaultdict(list) that hold something: a key that was  *)
(* only looked up has an empty list.                                       *)
NonEmptyEntries(d) == [k \in {x \in DOMAIN d : d[x] # <<>>} |-> d[k]]

(* C19: the added, removed and modified lists and the summary held after   *)
(* compare_dxf_files(a, b) are those a new instance returns for a and b,   *)
(* however many comparisons the instance made before.                      *)
C19_ComparisonIndependentOfHistory ==
    comparison.file2_data # None =>
        \E fresh \in FreshComparisons(Val(comparison.file1_data), Val(comparison.file2_data)) :
            /\ NonEmptyEntries(comparison.differences.added) = NonEmptyEntries(fresh.added)
            /\ NonEmptyEntries(comparison.differences.removed) = NonEmptyEntries(fresh.removed)
            /\ NonEmptyEntries(comparison.differences.modified) = NonEmptyEntries(fresh.modified)
            /\ comparison.differences.summary = fresh.summary

-----------------------------------------------------------------------------
(* Claims about the machinability score.                                   *)

(* C20: an analysis that detects complexity features in the drawing gives  *)
(* a complexity score below 100.                                           *)
C20_FeaturesLowerComplexityScore ==
    (cnc_call.ret # None /\ Val(cnc_call.ret).error = None) =>
        (Val(Val(cnc_call.ret).geometry_analysis).complexity_features # <<>> =>
            Val(Val(cnc_call.ret).machinability_score).complexity_score < 1000)

-----------------------------------------------------------------------------
(* Claims about the prompt templates.                                      *)

(* C21: for every prompt type of the template table, a call of             *)
(* analyze_with_<provider> whose provider is configured, has a working     *)
(* client and answers with a text formats the template, calls the          *)
(* provider once and returns an analysis of that prompt type, not an       *)
(* error.                                                                  *)
C21_EveryTemplateIsFormatted ==
    (/\ ai_call.op = "analyze_with"
     /\ ai_call.configured
     /\ ClientOf(ai_integration, Val(ai_call.provider)) = Some("sync")
     /\ Val(ai_call.reply).kind = "text"
     /\ Val(ai_call.prompt_type) \in DOMAIN PromptFields) =>
        /\ "error" \notin DOMAIN Val(ai_call.ret)
        /\ ai_call.invocations = 1
        /\ Val(ai_call.ret).prompt_type = Val(ai_call.prompt_type)

====
